---- MODULE Spec2Model ----
(***************************************************************************)
(* A model of psdemuxer: the bit reader (io/bits.py), the segmented stream *)
(* reader (io/__init__.py), the pack / PES parser (pack/...), the program  *)
(* stream index (psdemuxer/__init__.py) and the per stream reader          *)
(* (streams/reader.py).  Bytes are integers 0..255, byte strings are       *)
(* sequences of bytes, Python's 0-based indices are kept through At().     *)
(***************************************************************************)
EXTENDS Integers, Sequences, FiniteSets, TLC

VARIABLES
    hdata,            \* handle name -> the bytes behind the handle
    hpos,             \* handle name -> the handle's cursor
    bs_keep,          \* BitStreamReader._keep_data
    bs_position,      \* BitStreamReader._position
    bs_current_byte,  \* BitStreamReader._current_byte
    bs_data,          \* BitStreamReader._data (bytes written so far)
    bs_value,         \* value returned by the last BitStreamReader.read
    bs_err,           \* exception raised by the last BitStreamReader.read
    bs_last,          \* history: size passed to the last read (-1: none yet)
    bs_consumed,      \* history: sum of the sizes read so far
    bs_legal,         \* history: every size so far was in 1..32
    sr_segs,          \* StreamReader.segment_info
    sr_total,         \* StreamReader.total_size
    sr_position,      \* StreamReader.position (segment index)
    sr_offset,        \* StreamReader.offset (offset within the segment)
    sr_ret,           \* value returned by the last seek / read
    sr_err,           \* outcome of the last seek / read
    sr_ops,           \* history: the last call on the StreamReader, tell() before
                      \* a relative seek, and the seek a read directly follows
    pc,               \* where index construction stands
    err,              \* exception that ended index construction
    next_bits,        \* PackStartHeader.__init__'s local next_bits
    psh,              \* the PackStartHeader under construction
    pack_list,        \* MPEG2ProgramStream.pack_list
    pes_types,        \* MPEG2ProgramStream.pes_types, in insertion order
    cur_pes,          \* history: the PESPacket the parser last worked on
    ix_read,          \* history: file offsets read while the index was built
    si_arg,           \* argument of the last stream_iter call
    si_out,           \* PES packets yielded by the last stream_iter call
    si_err,           \* exception raised by the last stream_iter call
    rd_arg,           \* stream id the StreamIdReader was built for
    rd_out,           \* bytes read from the StreamIdReader so far
    rd_eof,           \* the StreamIdReader returned an empty read
    sh_readers,       \* StreamReaders over one handle: reader -> its fields
    sh_last,          \* history: the last read of one of these readers
    pv_kind,          \* the private stream reader that was built, if any
    pv_err,           \* exception that ended the construction of that reader
    pv_audio,         \* history: the DVDAC3Audio / PS2PCMAudio objects built
    pv_out,           \* bytes read from the private stream reader so far
    pv_eof,           \* the private stream reader returned an empty read
    pv_pcm,           \* the fields of the _PS2PCMStream that was built
    pv_last,          \* history: the last read of the _PS2PCMStream
    vd_pc,            \* where the constructor that was called stands
    vd_err,           \* exception that ended that constructor
    vd_entry,         \* history: the cursor of the handle when it was called
    vd_info_only,     \* MPEG2Video's argument info_only
    vd_i,             \* the argument i of extension_and_user_data
    vd_picture,       \* history: the PictureHeader last parsed
    vd_ext,           \* history: the ExtensionData last parsed
    vd_scan           \* history: the picture data scan last run

vars == <<hdata, hpos, bs_keep, bs_position, bs_current_byte, bs_data, bs_value,
          bs_err, bs_last, bs_consumed, bs_legal, sr_segs, sr_total,
          sr_position, sr_offset, sr_ret, sr_err, sr_ops, pc, err, next_bits,
          psh, pack_list, pes_types, cur_pes, ix_read, si_arg, si_out, si_err, rd_arg,
          rd_out, rd_eof, sh_readers, sh_last, pv_kind, pv_err, pv_audio,
          pv_out, pv_eof, pv_pcm, pv_last, vd_pc, vd_err, vd_entry,
          vd_info_only, vd_i, vd_picture, vd_ext, vd_scan>>

bsVars == <<bs_keep, bs_position, bs_current_byte, bs_data, bs_value, bs_err,
            bs_last, bs_consumed, bs_legal>>
srVars == <<sr_segs, sr_total, sr_position, sr_offset, sr_ret, sr_err, sr_ops>>
ixVars == <<pc, err, next_bits, psh, pack_list, pes_types, cur_pes, ix_read>>
siVars == <<si_arg, si_out, si_err>>
rdVars == <<rd_arg, rd_out, rd_eof>>
shVars == <<sh_readers, sh_last>>
\* what the bit reader, the single StreamReader and the index leave alone
pvVars == <<pv_kind, pv_err, pv_audio, pv_out, pv_eof, pv_pcm, pv_last>>
vdVars == <<vd_pc, vd_err, vd_entry, vd_info_only, vd_i, vd_picture, vd_ext,
           vd_scan>>
otherVars == <<shVars, pvVars, vdVars>>

(***************************************************************************)
(* Bounds of the model.                                                    *)
(***************************************************************************)
BsLen == 5        \* bytes behind a BitStreamReader
MaxSegs == 3      \* segments of a StreamReader
MaxSegLen == 2    \* bytes of one segment
MaxTotal == 3     \* bytes of all segments of a StreamReader together
MaxItems == 3     \* packs and PES packets after the first pack header
MaxUnder == 2     \* how far below 0 a relative seek is followed
NumReaders == 2   \* StreamReaders that share one handle

(***************************************************************************)
(* Python values.                                                          *)
(***************************************************************************)
None == -1

Min(a, b) == IF a <= b THEN a ELSE b
Max(a, b) == IF a >= b THEN a ELSE b

RECURSIVE Pow2(_)
Pow2(n) == IF n <= 0 THEN 1 ELSE 2 * Pow2(n - 1)

\* a << n and a >> n on non-negative integers
Shl(a, n) == a * Pow2(n)
Shr(a, n) == a \div Pow2(n)

RECURSIVE BitAnd(_, _)
BitAnd(a, b) ==
    IF a = 0 \/ b = 0 THEN 0
    ELSE (a % 2) * (b % 2) + 2 * BitAnd(a \div 2, b \div 2)

RECURSIVE BitOr(_, _)
BitOr(a, b) ==
    IF a = 0 THEN b
    ELSE IF b = 0 THEN a
    ELSE Max(a % 2, b % 2) + 2 * BitOr(a \div 2, b \div 2)

\* d[i] with Python's 0-based index
At(d, i) == d[i + 1]

\* d[-1], d[-2], ...: Python's negative index counts from the end
PyAt(d, i) == IF i < 0 THEN d[Len(d) + i + 1] ELSE d[i + 1]

\* d[a:b] for 0 <= a
Slice(d, a, b) ==
    LET hi == Min(b, Len(d))
    IN  IF a >= hi THEN <<>> ELSE [i \in 1..(hi - a) |-> d[a + i]]

Zeros(n) == [i \in 1..n |-> 0]

IsPrefix(a, b) == Len(a) <= Len(b) /\ a = SubSeq(b, 1, Len(a))

RECURSIVE SeqSum(_)
SeqSum(s) == IF s = <<>> THEN 0 ELSE Head(s) + SeqSum(Tail(s))

RECURSIVE Flatten(_)
Flatten(ss) == IF ss = <<>> THEN <<>> ELSE Head(ss) \o Flatten(Tail(ss))

\* all sequences over S of length 0..n
SeqsUpTo(S, n) == UNION {[1..k -> S] : k \in 0..n}

(***************************************************************************)
(* A byte handle (BufferedReader over a file, or BytesIO).                *)
(***************************************************************************)
Handles == {"file", "mem", "pad"}

\* fh.read(n) at cursor p, n >= 0: the bytes returned
HRead(d, p, n) == Slice(d, p, p + n)

\* fh.readinto(bytearray(n)) at cursor p: the buffer afterwards (bytes the
\* handle cannot deliver stay zero)
HReadInto(d, p, n) ==
    LET got == HRead(d, p, n) IN got \o Zeros(n - Len(got))

\* cursor after reading n bytes at p
HAdvance(d, p, n) == p + Len(HRead(d, p, n))

(***************************************************************************)
(* io/bits.py: BitStreamReader.  The value a read returns can need more    *)
(* than 31 bits, so a Python int that grows by "|" and "<<" is kept as the *)
(* set of the indices of its 1 bits (bit 0 is the least significant).      *)
(***************************************************************************)
\* the int x < 256 as a bit set
Bits(x) == {i \in 0..7 : Shr(x, i) % 2 = 1}

\* x << n and x | y on bit sets
BigShl(x, n) == {i + n : i \in x}
BigOr(x, y) == x \cup y

\* the mask of a reader that forgets the bit cursor
make_mask_no_pos(num, pos) ==
    [mask  |-> Shl(Pow2(num) - 1, 8 - num),
     shift |-> 8 - num]

make_mask(num, pos) ==
    [mask  |-> Shl(Pow2(num) - 1, 8 - num - pos),
     shift |-> 8 - num - pos]

\* the loop "for extra_byte in extra_bytes" of BitStreamReader.read
RECURSIVE ExtraBytesLoop(_, _)
ExtraBytesLoop(extra_bytes, acc) ==
    IF extra_bytes = <<>> THEN acc
    ELSE LET extra_byte == Head(extra_bytes)
             num == Min(8, acc.extra_bits_to_read)
             m == make_mask(num, 0)
             left_shift == acc.bits_left_to_shift - num
         IN  ExtraBytesLoop(Tail(extra_bytes),
                 [value |-> BigOr(acc.value,
                                  BigShl(Bits(Shr(BitAnd(extra_byte, m.mask), m.shift)),
                                         left_shift)),
                  bits_left_to_shift |-> acc.bits_left_to_shift - num,
                  extra_bits_to_read |-> acc.extra_bits_to_read - num,
                  new_pos |-> num % 8,
                  current_byte |-> extra_byte])

\* BitStreamReader.read(size) over the handle bytes d at cursor p
BitRead(d, p, position, current_byte, size) ==
    LET first == IF position = 0 THEN HRead(d, p, 1) ELSE <<>>
        p1 == p + Len(first)
    IN  IF position = 0 /\ first = <<>>
        THEN [err |-> "IndexError", value |-> {}, fetched |-> <<>>, p |-> p,
              position |-> position, current_byte |-> current_byte]
        ELSE
        LET cur == IF position = 0 THEN first[1] ELSE current_byte
            bits_in_current_pos == 8 - position
            extra_bits_to_read == Max(0, size - bits_in_current_pos)
            extra_byte_num == (extra_bits_to_read + 7) \div 8
            extra_bytes == HRead(d, p1, extra_byte_num)
            num == Min(size, bits_in_current_pos)
            m == make_mask(num, position)
            left_shift == size - num
            acc0 == [value |-> BigOr({}, BigShl(Bits(Shr(BitAnd(cur, m.mask), m.shift)),
                                                left_shift)),
                     bits_left_to_shift |-> size - num,
                     extra_bits_to_read |-> extra_bits_to_read,
                     new_pos |-> (position + num) % 8,
                     current_byte |-> cur]
            acc == ExtraBytesLoop(extra_bytes, acc0)
        IN  [err |-> "none", value |-> acc.value,
             fetched |-> first \o extra_bytes, p |-> p1 + Len(extra_bytes),
             position |-> acc.new_pos, current_byte |-> acc.current_byte]

\* sizes the callers pass to read
BsSizes == {0, 1, 3, 8, 9, 13, 32, 33}
BsByteVals == {60, 165}

\* the callers stop at the first size outside 1..32
BsRead(size) ==
    /\ bs_err = "none"
    /\ bs_legal
    /\ LET r == BitRead(hdata["file"], hpos["file"], bs_position,
                        bs_current_byte, size)
       IN  /\ bs_err' = r.err
           /\ bs_value' = r.value
           /\ bs_position' = r.position
           /\ bs_current_byte' = r.current_byte
           /\ hpos' = [hpos EXCEPT !["file"] = r.p]
           /\ bs_data' = IF bs_keep THEN bs_data \o r.fetched ELSE bs_data
           /\ bs_last' = size
           /\ bs_consumed' = bs_consumed + size
           /\ bs_legal' = (bs_legal /\ size \in 1..32)
    /\ UNCHANGED <<otherVars, hdata, bs_keep, srVars, ixVars, siVars, rdVars>>

(***************************************************************************)
(* io/__init__.py: SegmentInfo and StreamReader                            *)
(***************************************************************************)
SegmentInfo(fh, real_address, virtual_start, data_size) ==
    [fh |-> fh, real_address |-> real_address,
     virtual_start |-> virtual_start, data_size |-> data_size]

\* StreamReader.__init__: total_size
TotalSize(segs) == SeqSum([i \in 1..Len(segs) |-> segs[i].data_size])

current_virtual_pos(segs, position, offset) ==
    IF position >= Len(segs)
    THEN PyAt(segs, -1).virtual_start + PyAt(segs, -1).data_size
    ELSE PyAt(segs, position).virtual_start + offset

\* bisect.bisect_left in the place of bisect.bisect
RECURSIVE bisect_left(_, _, _, _)
bisect_left(segs, x, lo, hi) ==
    IF lo >= hi THEN lo
    ELSE LET mid == (lo + hi) \div 2
         IN  IF x <= At(segs, mid).virtual_start
             THEN bisect_left(segs, x, lo, mid)
             ELSE bisect_left(segs, x, mid + 1, hi)

\* bisect.bisect(a, x, key=...): the binary search of bisect_right
RECURSIVE bisect(_, _, _, _)
bisect(segs, x, lo, hi) ==
    IF lo >= hi THEN lo
    ELSE LET mid == (lo + hi) \div 2
         IN  IF x < At(segs, mid).virtual_start
             THEN bisect(segs, x, lo, mid)
             ELSE bisect(segs, x, mid + 1, hi)

find_seek_position(segs, offset) == bisect(segs, offset, 0, Len(segs)) - 1

SEEK_SET == 0
SEEK_CUR == 1
SEEK_END == 2

\* StreamReader.seek: the clamped offset, or None when whence is unsupported
SeekTarget(segs, total, position, offset0, offset, whence) ==
    IF whence = SEEK_SET THEN Min(Max(0, offset), total)
    ELSE IF whence = SEEK_CUR
         THEN Min(offset + current_virtual_pos(segs, position, offset0), total)
    ELSE IF whence = SEEK_END THEN Max(0, total + Min(offset, 0))
    ELSE None

\* StreamReader.seek(offset, whence) on a reader at (position, offset0)
SeekOp(segs, total, position, offset0, offset, whence) ==
    IF whence \notin {SEEK_SET, SEEK_CUR, SEEK_END}
    THEN [err |-> "ValueError", ret |-> None,
          position |-> position, offset |-> offset0]
    ELSE LET target == SeekTarget(segs, total, position, offset0, offset, whence)
             found == find_seek_position(segs, target)
         IN  [err |-> "none", ret |-> target, position |-> found,
              offset |-> target - PyAt(segs, found).virtual_start]

\* the error a handle raises for seek(negative address)
NegativeSeekError(fh) == IF fh = "file" THEN "OSError" ELSE "ValueError"

\* the loop of StreamReader.read without "self._current_fh.seek(...)": each
\* physical read starts where the cursor of the handle stands
RECURSIVE ReadLoopNoSeek(_, _, _, _, _, _, _)
ReadLoopNoSeek(segs, hd, hp, position, offset, left, data) ==
    IF ~(left > 0 /\ position < Len(segs))
    THEN [err |-> "none", data |-> data, position |-> position,
          offset |-> offset, hp |-> hp]
    ELSE
    LET seg == PyAt(segs, position)
        to_read == Min(left, seg.data_size - offset)
        data_read == HRead(hd[seg.fh], hp[seg.fh], to_read)
        noff == offset + Len(data_read)
        wrap == noff >= seg.data_size
        hp1 == [hp EXCEPT ![seg.fh] = @ + Len(data_read)]
    IN  IF Len(data_read) = 0 /\ ~wrap
        THEN [err |-> "hang", data |-> data, position |-> position,
              offset |-> offset, hp |-> hp1]
        ELSE ReadLoopNoSeek(segs, hd, hp1,
                            IF wrap THEN position + 1 ELSE position,
                            IF wrap THEN 0 ELSE noff,
                            left - Len(data_read), data \o data_read)

\* the loop of StreamReader.read; hp is the cursor of every handle
RECURSIVE ReadLoop(_, _, _, _, _, _, _)
ReadLoop(segs, hd, hp, position, offset, left, data) ==
    IF ~(left > 0 /\ position < Len(segs))
    THEN [err |-> "none", data |-> data, position |-> position,
          offset |-> offset, hp |-> hp]
    ELSE
    LET seg == PyAt(segs, position)
        to_read == Min(left, seg.data_size - offset)
        addr == seg.real_address + offset
        d == hd[seg.fh]
    IN  IF addr < 0
        THEN [err |-> NegativeSeekError(seg.fh), data |-> data,
              position |-> position, offset |-> offset, hp |-> hp]
        ELSE IF to_read < -1 /\ seg.fh = "file"
        THEN [err |-> "ValueError", data |-> data, position |-> position,
              offset |-> offset, hp |-> [hp EXCEPT ![seg.fh] = addr]]
        ELSE
        LET data_read == IF to_read < 0 THEN Slice(d, addr, Len(d))
                         ELSE HRead(d, addr, to_read)
            noff == offset + Len(data_read)
            wrap == noff >= seg.data_size
            hp1 == [hp EXCEPT ![seg.fh] = addr + Len(data_read)]
        IN  IF Len(data_read) = 0 /\ ~wrap
            THEN [err |-> "hang", data |-> data, position |-> position,
                  offset |-> offset, hp |-> hp1]
            ELSE ReadLoop(segs, hd, hp1,
                          IF wrap THEN position + 1 ELSE position,
                          IF wrap THEN 0 ELSE noff,
                          left - Len(data_read), data \o data_read)

\* StreamReader.read(size)
ReadOp(segs, total, hd, hp, position, offset, size) ==
    LET size1 == IF size < 0
                 THEN total - current_virtual_pos(segs, position, offset)
                 ELSE size
    IN  ReadLoop(segs, hd, hp, position, offset, size1, <<>>)

\* StreamReader.tell()
Tell == current_virtual_pos(sr_segs, sr_position, sr_offset)

\* history kept with a call: the call before it, when a read follows a
\* seek(a) with 0 <= a <= total_size
NoCall == [op |-> "none", arg |-> 0, whence |-> None]
LastCall ==
    IF sr_ops.op = "seek" /\ sr_err = "none" /\ sr_ops.whence = SEEK_SET
       /\ sr_ops.arg \in 0..sr_total
    THEN [op |-> "seek", arg |-> sr_ops.arg, whence |-> sr_ops.whence]
    ELSE NoCall

Seek(offset, whence) ==
    /\ sr_err # "hang"
    /\ LET r == SeekOp(sr_segs, sr_total, sr_position, sr_offset, offset, whence)
       IN  /\ sr_position' = r.position
           /\ sr_offset' = r.offset
           /\ sr_ret' = r.ret
           /\ sr_err' = r.err
           /\ sr_ops' = [op |-> "seek", arg |-> offset, whence |-> whence,
                         before |-> IF whence = SEEK_CUR THEN Tell ELSE 0,
                         prev |-> NoCall]
    /\ UNCHANGED <<otherVars, hdata, hpos, sr_segs, sr_total, bsVars, ixVars, siVars, rdVars>>

Read(size) ==
    /\ sr_err # "hang"
    /\ LET r == ReadOp(sr_segs, sr_total, hdata, hpos, sr_position, sr_offset, size)
       IN  /\ sr_position' = r.position
           /\ sr_offset' = r.offset
           /\ sr_ret' = r.data
           /\ sr_err' = r.err
           /\ hpos' = r.hp
           /\ sr_ops' = [op |-> "read", arg |-> size, whence |-> None,
                         before |-> 0, prev |-> LastCall]
    /\ UNCHANGED <<otherVars, hdata, sr_segs, sr_total, bsVars, ixVars, siVars, rdVars>>

(***************************************************************************)
(* constants.py: the stream id table.  A name is the pair (text, number):  *)
(* f"audio stream number {num}" is the text "audio stream number " and the *)
(* decimal num; a table name has no number.                                *)
(***************************************************************************)
Name(text) == [text |-> text, num |-> None]
NumberedName(text, num) == [text |-> text, num |-> num]

stream_ids ==
    (188 :> "program_stream_map") @@ (189 :> "private_stream_1") @@
    (190 :> "padding_stream") @@ (191 :> "private_stream_2") @@
    (240 :> "ECM_stream") @@ (241 :> "EMM_stream") @@
    (242 :> "Rec. ITU-T H.222.0 | ISO/IEC 13818-1 Annex A or ISO/IEC 13818-6_DSMCC_stream") @@
    (243 :> "ISO/IEC_13522_stream") @@
    (244 :> "ISO/Rec. ITU-T H.222.1 type A") @@
    (245 :> "ISO/Rec. ITU-T H.222.1 type B") @@
    (246 :> "ISO/Rec. ITU-T H.222.1 type C") @@
    (247 :> "ISO/Rec. ITU-T H.222.1 type D") @@
    (248 :> "ISO/Rec. ITU-T H.222.1 type E") @@
    (249 :> "ancillary_stream") @@
    (250 :> "ISO/IEC 14496-1_SL-packetized_stream") @@
    (251 :> "ISO/IEC 14496-1_FlexMux_stream") @@
    (252 :> "metadata stream") @@ (253 :> "extended_stream_id") @@
    (254 :> "reserved data stream") @@ (255 :> "program_stream_directory")

get_audio_stream_number(stream_id) ==
    IF 192 <= stream_id /\ stream_id <= 223 THEN BitAnd(stream_id, 31) ELSE -1

get_video_stream_number(stream_id) ==
    IF 224 <= stream_id /\ stream_id <= 239 THEN BitAnd(stream_id, 15) ELSE -1

\* None is the record Name("None") here: a name is never an integer
NoName == Name("None")

get_stream_name_by_id(stream_id) ==
    IF get_audio_stream_number(stream_id) >= 0
    THEN NumberedName("audio stream number ", get_audio_stream_number(stream_id))
    ELSE IF get_video_stream_number(stream_id) >= 0
    THEN NumberedName("video stream number ", get_video_stream_number(stream_id))
    ELSE IF stream_id \in DOMAIN stream_ids THEN Name(stream_ids[stream_id])
    ELSE NoName

\* the loop "for num in range(0xBC, 0xFF + 1)": the first num whose name matches
RECURSIVE NameSearch(_, _)
NameSearch(name, num) ==
    IF num > 255 THEN None
    ELSE IF name = get_stream_name_by_id(num) THEN num
    ELSE NameSearch(name, num + 1)

get_stream_id_by_name(name) == NameSearch(name, 188)

(***************************************************************************)
(* utils.py: peek                                                          *)
(***************************************************************************)
\* peek(fh, size) at cursor p: the data, or the failed assertion when the
\* handle is short (the cursor is then left at p + len(data) - size)
peek(d, p, size) ==
    LET data == HRead(d, p, size)
    IN  IF Len(data) = size THEN [err |-> "none", data |-> data, p |-> p]
        ELSE IF p + Len(data) - size < 0
        THEN [err |-> "OSError", data |-> data, p |-> p + Len(data)]
        ELSE [err |-> "AssertionError", data |-> data,
              p |-> p + Len(data) - size]

start_code_prefix == <<0, 0, 1>>
system_header_start_code == <<0, 0, 1, 187>>
program_end_code == <<0, 0, 1, 185>>
pack_start_code == <<0, 0, 1, 186>>

(***************************************************************************)
(* pack/pes/*.py: the optional sub-headers of FlagData.  Each parser takes *)
(* the file bytes and the cursor and gives the error and the new cursor.   *)
(***************************************************************************)
Ok(p) == [err |-> "none", p |-> p]
Fail(e, p) == [err |-> e, p |-> p]

\* a sub-header of n bytes that checks nothing
Plain(d, p, n) == Ok(HAdvance(d, p, n))

FlagPTS(d, p) ==
    LET data == HReadInto(d, p, 5)
        b_0010 == Shr(BitAnd(At(data, 0), 240), 4)
    IN  IF b_0010 # 2 THEN Fail("InvalidFixedBitsException", HAdvance(d, p, 5))
        ELSE Ok(HAdvance(d, p, 5))

FlagPTSDTS(d, p) ==
    LET data == HReadInto(d, p, 10)
        b_0011 == Shr(BitAnd(At(data, 0), 240), 4)
        b_0001 == Shr(BitAnd(At(data, 5), 240), 4)
    IN  IF b_0011 # 3 \/ b_0001 # 1
        THEN Fail("InvalidFixedBitsException", HAdvance(d, p, 10))
        ELSE Ok(HAdvance(d, p, 10))

FlagESCR(d, p) == Plain(d, p, 6)

FlagESRate(d, p) == Plain(d, p, 3)

DMSTrickModeControl(d, p) == Plain(d, p, 1)

AdditionalCopyInfoFlag(d, p) ==
    LET data == HReadInto(d, p, 1)
        marker_0 == Shr(BitAnd(At(data, 0), 128), 7)
    IN  IF marker_0 = 0 THEN Fail("InvalidMarkerException", HAdvance(d, p, 1))
        ELSE Ok(HAdvance(d, p, 1))

CRCFlag(d, p) == Plain(d, p, 2)

PrivateData(d, p) == Plain(d, p, 16)

ProgramPacketSequenceCounter(d, p) ==
    LET data == HReadInto(d, p, 2)
        marker_0 == Shr(BitAnd(At(data, 0), 128), 7)
        marker_1 == Shr(BitAnd(At(data, 1), 128), 7)
    IN  IF marker_0 = 0 \/ marker_1 = 0
        THEN Fail("InvalidMarkerException", HAdvance(d, p, 2))
        ELSE Ok(HAdvance(d, p, 2))

PSTDBuffer(d, p) ==
    LET data == HReadInto(d, p, 2)
        b_01 == Shr(BitAnd(At(data, 0), 192), 6)
    IN  IF b_01 # 1 THEN Fail("InvalidFixedBitsException", HAdvance(d, p, 2))
        ELSE Ok(HAdvance(d, p, 2))

TrefExtension(d, p) ==
    LET data == HReadInto(d, p, 5)
        marker_0 == BitAnd(At(data, 0), 1)
        marker_1 == BitAnd(At(data, 2), 1)
        marker_2 == BitAnd(At(data, 4), 1)
    IN  IF marker_0 = 0 \/ marker_1 = 0 \/ marker_2 = 0
        THEN Fail("InvalidMarkerException", HAdvance(d, p, 5))
        ELSE Ok(HAdvance(d, p, 5))

Extension2(d, p) ==
    LET data == HReadInto(d, p, 2)
        p1 == HAdvance(d, p, 2)
        marker_0 == Shr(BitAnd(At(data, 0), 128), 7)
        stream_id_extension_flag == Shr(BitAnd(At(data, 1), 128), 7)
        tref_extension_flag == BitAnd(At(data, 1), 1)
    IN  IF marker_0 = 0 THEN Fail("InvalidMarkerException", p1)
        ELSE IF stream_id_extension_flag = 0 THEN Ok(p1)
        ELSE IF tref_extension_flag # 0 THEN Ok(p1)
        ELSE LET t == TrefExtension(d, p1)
             IN  IF t.err # "none" THEN t ELSE Ok(t.p + 5)

\* run parser P at the cursor of st when cond holds and nothing failed yet
Chain(st, cond, d, P(_, _)) ==
    IF st.err # "none" \/ ~cond THEN st ELSE P(d, st.p)

\* ExtensionFlag.__init__, field by field: data is self.data, p1 the cursor
\* after it
ExtPrivateData(d, data, p1) ==
    Chain(Ok(p1), Shr(BitAnd(At(data, 0), 128), 7) = 1, d, PrivateData)

\* "assert self.pack_header_field_flag == 0"
ExtPackHeaderField(st, data) ==
    IF st.err = "none" /\ Shr(BitAnd(At(data, 0), 64), 6) # 0
    THEN Fail("AssertionError", st.p) ELSE st

ExtSequenceCounter(d, data, p1) ==
    Chain(ExtPackHeaderField(ExtPrivateData(d, data, p1), data),
          Shr(BitAnd(At(data, 0), 32), 5) = 1, d, ProgramPacketSequenceCounter)

ExtPSTDBuffer(d, data, p1) ==
    Chain(ExtSequenceCounter(d, data, p1),
          Shr(BitAnd(At(data, 0), 16), 4) = 1, d, PSTDBuffer)

ExtExtension2(d, data, p1) ==
    Chain(ExtPSTDBuffer(d, data, p1), BitAnd(At(data, 0), 1) = 1, d, Extension2)

ExtensionFlag(d, p) == ExtExtension2(d, HReadInto(d, p, 1), HAdvance(d, p, 1))

(***************************************************************************)
(* pack/pes/flagdata.py: FlagData                                          *)
(***************************************************************************)
b_10(data) == Shr(BitAnd(At(data, 0), 192), 6)
pts_dts_flags(data) == Shr(BitAnd(At(data, 1), 192), 6)
escr_flag(data) == Shr(BitAnd(At(data, 1), 32), 5)
es_rate_flag(data) == Shr(BitAnd(At(data, 1), 16), 4)
dsm_trick_mode_flag(data) == Shr(BitAnd(At(data, 1), 8), 3)
additional_copy_info_flag(data) == Shr(BitAnd(At(data, 1), 4), 2)
pes_crc_flag(data) == Shr(BitAnd(At(data, 1), 2), 1)
pes_extension_flag(data) == Shr(BitAnd(At(data, 1), 1), 0)
pes_header_data_length(data) == Shr(BitAnd(At(data, 2), 255), 0)

AllFF(bytes) == \A i \in 1..Len(bytes) : bytes[i] = 255

\* FlagData.__init__, sub-header by sub-header: data is self.data, pos the
\* cursor after it
WithPTS(d, data, pos) ==
    Chain(Ok(pos), pts_dts_flags(data) = 2, d, FlagPTS)

WithPTSDTS(d, data, pos) ==
    Chain(WithPTS(d, data, pos), pts_dts_flags(data) = 3, d, FlagPTSDTS)

WithESCR(d, data, pos) ==
    Chain(WithPTSDTS(d, data, pos), escr_flag(data) = 1, d, FlagESCR)

WithESRate(d, data, pos) ==
    Chain(WithESCR(d, data, pos), es_rate_flag(data) = 1, d, FlagESRate)

WithTrickMode(d, data, pos) ==
    Chain(WithESRate(d, data, pos), dsm_trick_mode_flag(data) = 1, d,
          DMSTrickModeControl)

WithCopyInfo(d, data, pos) ==
    Chain(WithTrickMode(d, data, pos), additional_copy_info_flag(data) = 1, d,
          AdditionalCopyInfoFlag)

WithCRC(d, data, pos) ==
    Chain(WithCopyInfo(d, data, pos), pes_crc_flag(data) = 1, d, CRCFlag)

WithExtension(d, data, pos) ==
    Chain(WithCRC(d, data, pos), pes_extension_flag(data) = 1, d, ExtensionFlag)

\* the stuffing bytes without "assert self.stuffing_bytes == b'\xFF' * n":
\* any bytes fill the header up
FlagDataStuffingAnyByte(d, data, pos, st) ==
    LET bytes_read == st.p - pos
        bytes_left == pes_header_data_length(data) - bytes_read
        stuffing_bytes == HRead(d, st.p, bytes_left)
    IN  IF st.err # "none"
        THEN [err |-> st.err, p |-> st.p, data |-> data]
        ELSE IF bytes_left < 0
        THEN [err |-> "AssertionError", p |-> st.p, data |-> data]
        ELSE IF Len(stuffing_bytes) # bytes_left
        THEN [err |-> "AssertionError", p |-> st.p + Len(stuffing_bytes),
              data |-> data]
        ELSE [err |-> "none", p |-> st.p + Len(stuffing_bytes),
              data |-> data]

\* the stuffing bytes: st is the outcome of the sub-headers
FlagDataStuffing(d, data, pos, st) ==
    LET bytes_read == st.p - pos
        bytes_left == pes_header_data_length(data) - bytes_read
        stuffing_bytes == HRead(d, st.p, bytes_left)
    IN  IF st.err # "none"
        THEN [err |-> st.err, p |-> st.p, data |-> data]
        ELSE IF bytes_left < 0
        THEN [err |-> "AssertionError", p |-> st.p, data |-> data]
        ELSE IF Len(stuffing_bytes) # bytes_left \/ ~AllFF(stuffing_bytes)
        THEN [err |-> "AssertionError", p |-> st.p + Len(stuffing_bytes),
              data |-> data]
        ELSE [err |-> "none", p |-> st.p + Len(stuffing_bytes),
              data |-> data]

FlagDataRead(d, data, pos) ==
    IF b_10(data) # 2
    THEN [err |-> "InvalidFixedBitsException", p |-> pos, data |-> data]
    ELSE FlagDataStuffing(d, data, pos, WithExtension(d, data, pos))

\* FlagData.__init__ with the handle at cursor p
FlagData(d, p) == FlagDataRead(d, HReadInto(d, p, 3), HAdvance(d, p, 3))

(***************************************************************************)
(* pack/pes/__init__.py: PESPacket                                         *)
(***************************************************************************)
NoFlagData == <<>>

\* a packet whose pos is taken after the six bytes are read, not before
PESRecordLatePos(pos, data, flag_data, header_length, n, private_stream_id) ==
    [pos |-> pos + 6,
     stream_id |-> At(data, 3),
     pes_packet_length |-> BitOr(Shl(At(data, 4), 8), At(data, 5)),
     flag_data |-> flag_data,
     header_length |-> header_length,
     pes_packet_data_bytes_n |-> n,
     private_stream_id |-> private_stream_id]

PESRecord(pos, data, flag_data, header_length, n, private_stream_id) ==
    [pos |-> pos,
     stream_id |-> At(data, 3),
     pes_packet_length |-> BitOr(Shl(At(data, 4), 8), At(data, 5)),
     flag_data |-> flag_data,
     header_length |-> header_length,
     pes_packet_data_bytes_n |-> n,
     private_stream_id |-> private_stream_id]

\* the stream ids of the first "if": those that get no FlagData
NoFlagDataIds ==
    {get_stream_id_by_name(Name("program_stream_map")),
     get_stream_id_by_name(Name("padding_stream")),
     get_stream_id_by_name(Name("private_stream_2")),
     get_stream_id_by_name(Name("ECM_stream")),
     get_stream_id_by_name(Name("EMM_stream")),
     get_stream_id_by_name(Name("program_stream_directory")),
     get_stream_id_by_name(Name("DSMCC_stream")),
     get_stream_id_by_name(Name("ISO/Rec. ITU-T H.222.1 type E"))}

\* the stream ids of the first "elif": skipped without a header
SkippedIds ==
    {get_stream_id_by_name(Name("program_stream_map")),
     get_stream_id_by_name(Name("ECM_stream")),
     get_stream_id_by_name(Name("EMM_stream")),
     get_stream_id_by_name(Name("program_stream_directory")),
     get_stream_id_by_name(Name("DSMCC_stream")),
     get_stream_id_by_name(Name("ISO/Rec. ITU-T H.222.1 type E"))}

\* fh.seek(n, os.SEEK_CUR) at cursor p
SeekCur(p, n, pes) ==
    IF p + n < 0 THEN [err |-> "OSError", p |-> p, pes |-> pes]
    ELSE [err |-> "none", p |-> p + n, pes |-> pes]

\* the FlagData branch with header_length measured from the end of the six
\* byte prefix instead of from self.pos
PESHeaderFromPrefix(d, p0, data, pos, fd) ==
    LET stream_id == At(data, 3)
        pes_packet_length == BitOr(Shl(At(data, 4), 8), At(data, 5))
        bytes_left == pes_packet_length - (fd.p - pos)
        pk == peek(d, fd.p, 1)
        is_private == stream_id = get_stream_id_by_name(Name("private_stream_1"))
        pes == PESRecord(p0, data, fd.data, fd.p - pos, bytes_left,
                         IF is_private /\ pk.err = "none"
                         THEN At(pk.data, 0) ELSE None)
    IN  IF fd.err # "none"
        THEN [err |-> fd.err, p |-> fd.p,
              pes |-> PESRecord(p0, data, fd.data, 0, 0, None)]
        ELSE IF is_private /\ pk.err # "none"
        THEN [err |-> pk.err, p |-> pk.p, pes |-> pes]
        ELSE SeekCur(fd.p, bytes_left, pes)

\* the branch of PESPacket.__init__ that parses FlagData: fd is its outcome
PESWithFlagData(d, p0, data, pos, fd) ==
    LET stream_id == At(data, 3)
        pes_packet_length == BitOr(Shl(At(data, 4), 8), At(data, 5))
        bytes_read == fd.p - pos
        bytes_left == pes_packet_length - bytes_read
        header_length == fd.p - p0
        pk == peek(d, fd.p, 1)
        is_private == stream_id = get_stream_id_by_name(Name("private_stream_1"))
        pes == PESRecord(p0, data, fd.data, header_length, bytes_left,
                         IF is_private /\ pk.err = "none"
                         THEN At(pk.data, 0) ELSE None)
    IN  IF fd.err # "none"
        THEN [err |-> fd.err, p |-> fd.p,
              pes |-> PESRecord(p0, data, fd.data, 0, 0, None)]
        ELSE IF is_private /\ pk.err # "none"
        THEN [err |-> pk.err, p |-> pk.p, pes |-> pes]
        ELSE SeekCur(fd.p, bytes_left, pes)

\* PESPacket.__init__ once the six bytes are read: data is self.data, pos the
\* cursor after it
PESPacketRead(d, p0, data, pos) ==
    LET stream_id == At(data, 3)
        pes_packet_length == BitOr(Shl(At(data, 4), 8), At(data, 5))
    IN  IF stream_id \notin NoFlagDataIds
        THEN PESWithFlagData(d, p0, data, pos, FlagData(d, pos))
        ELSE IF stream_id \in SkippedIds
        THEN SeekCur(pos, pes_packet_length - (pos - pos),
                     PESRecord(p0, data, NoFlagData, pos - p0,
                               pes_packet_length - (pos - pos), None))
        ELSE IF stream_id = get_stream_id_by_name(Name("padding_stream"))
        THEN SeekCur(pos, pes_packet_length,
                     PESRecord(p0, data, NoFlagData, pos - p0,
                               pes_packet_length, None))
        ELSE [err |-> "RuntimeError", p |-> pos,
              pes |-> PESRecord(p0, data, NoFlagData, pos - p0, 0, None)]

\* PESPacket.__init__ with the handle at cursor p0
PESPacket(d, p0) ==
    PESPacketRead(d, p0, HReadInto(d, p0, 6), HAdvance(d, p0, 6))

(***************************************************************************)
(* pack/system/: SystemHeader, StreamId, StreamIdEx                        *)
(***************************************************************************)
stream_id_ex == 183

\* "assert self.data[0] == StreamIdEx.stream_id": StreamIdEx.stream_id, read
\* on the class, is the property object and equals no byte
StreamIdExAssertion(data) == FALSE

\* the descriptor once its bytes are read: data is self.data, p the cursor
StreamIdExRead(data, p) ==
    LET b_11_0 == Shr(BitAnd(At(data, 1), 192), 6)
        b_0000000 == BitOr(Shl(BitAnd(At(data, 1), 63), 1),
                           Shr(BitAnd(At(data, 2), 128), 7))
        b_10110110 == BitAnd(At(data, 3), 511)
        b_11_1 == Shr(BitAnd(At(data, 4), 192), 6)
    IN  IF ~StreamIdExAssertion(data)
        THEN [err |-> "AssertionError", p |-> p, size |-> 6,
              stream_id |-> At(data, 0)]
        ELSE IF b_11_0 # 3 \/ b_0000000 # 0 \/ b_10110110 # 182 \/ b_11_1 # 3
        THEN [err |-> "InvalidFixedBitsException", p |-> p,
              size |-> 6, stream_id |-> At(data, 0)]
        ELSE [err |-> "none", p |-> p, size |-> 6, stream_id |-> At(data, 0)]

StreamIdEx(d, p) == StreamIdExRead(HReadInto(d, p, 6), HAdvance(d, p, 6))

StreamIdRead(data, p) ==
    LET b_11 == Shr(BitAnd(At(data, 1), 192), 6)
    IN  IF b_11 # 3
        THEN [err |-> "InvalidFixedBitsException", p |-> p,
              size |-> 3, stream_id |-> At(data, 0)]
        ELSE [err |-> "none", p |-> p, size |-> 3, stream_id |-> At(data, 0)]

StreamId(d, p) == StreamIdRead(HReadInto(d, p, 3), HAdvance(d, p, 3))

\* the loop "while next_bits[0] & 0b10000000" of SystemHeader.__init__:
\* StreamsLoop peeks, StreamsLoopPeeked builds the descriptor and
\* StreamsLoopParsed appends it and goes round again
RECURSIVE StreamsLoop(_, _, _)
StreamsLoopParsed(d, p, streams, s_id) ==
    IF s_id.err # "none"
    THEN [err |-> s_id.err, p |-> s_id.p, streams |-> streams]
    ELSE StreamsLoop(d, s_id.p,
                     Append(streams, [pos |-> p, size |-> s_id.size,
                                      stream_id |-> s_id.stream_id]))

StreamsLoopPeeked(d, p, streams, pk) ==
    IF pk.err # "none"
    THEN [err |-> pk.err, p |-> pk.p, streams |-> streams]
    ELSE IF BitAnd(At(pk.data, 0), 128) = 0
    THEN [err |-> "none", p |-> p, streams |-> streams]
    ELSE StreamsLoopParsed(d, p, streams,
                           IF At(pk.data, 0) = stream_id_ex
                           THEN StreamIdEx(d, p) ELSE StreamId(d, p))

StreamsLoop(d, p, streams) == StreamsLoopPeeked(d, p, streams, peek(d, p, 1))

NoSystemHeader == [pos |-> None, streams |-> <<>>]

\* SystemHeader.__init__ once the descriptors are parsed
SystemHeaderStreams(p, loop) ==
    [err |-> loop.err, p |-> loop.p, sh |-> [pos |-> p, streams |-> loop.streams]]

\* SystemHeader.__init__ once the 12 bytes are read: data is self.data, p1
\* the cursor
SystemHeaderRead(d, p, data, p1) ==
    LET marker_0 == Shr(BitAnd(At(data, 6), 128), 7)
        marker_1 == BitAnd(At(data, 8), 1)
        marker_2 == Shr(BitAnd(At(data, 10), 32), 5)
    IN  IF Slice(data, 0, 4) # system_header_start_code
        THEN [err |-> "AssertionError", p |-> p1, sh |-> NoSystemHeader]
        ELSE IF marker_0 = 0 \/ marker_1 = 0 \/ marker_2 = 0
        THEN [err |-> "InvalidMarkerException", p |-> p1, sh |-> NoSystemHeader]
        ELSE SystemHeaderStreams(p, StreamsLoop(d, p1, <<>>))

SystemHeader(d, p) ==
    SystemHeaderRead(d, p, HReadInto(d, p, 12), HAdvance(d, p, 12))

(***************************************************************************)
(* pack/__init__.py: PackStartHeader                                       *)
(***************************************************************************)
b_01(data) == Shr(BitAnd(At(data, 4), 192), 6)
marker_0(data) == Shr(BitAnd(At(data, 4), 4), 2)
marker_1(data) == Shr(BitAnd(At(data, 6), 4), 2)
marker_2(data) == Shr(BitAnd(At(data, 8), 4), 2)
\* marker_3 with the byte and mask of marker_2
marker_3_copy(data) == Shr(BitAnd(At(data, 8), 4), 2)
marker_3(data) == Shr(BitAnd(At(data, 9), 1), 0)
marker_4(data) == Shr(BitAnd(At(data, 12), 2), 1)
marker_5(data) == Shr(BitAnd(At(data, 12), 1), 0)
pack_stuffing_length(data) == Shr(BitAnd(At(data, 13), 7), 0)

PackSize == 14

PackFail(e, p) == [err |-> e, p |-> p, sh |-> NoSystemHeader, next_bits |-> <<>>]

\* lines 49: the peek after the system header
PackHeaderPeeked(sys, pk2) ==
    IF pk2.err # "none" THEN PackFail(pk2.err, pk2.p)
    ELSE [err |-> "none", p |-> sys.p, sh |-> sys.sh, next_bits |-> pk2.data]

\* lines 46-49: sys is the outcome of the system header, if there is one
PackHeaderSystem(d, sys) ==
    IF sys.err # "none" THEN PackFail(sys.err, sys.p)
    ELSE PackHeaderPeeked(sys, peek(d, sys.p, 4))

\* lines 44-47: pk1 is the first peek, p2 the cursor after the stuffing
PackHeaderStuffed(d, p2, pk1) ==
    IF pk1.err # "none" THEN PackFail(pk1.err, pk1.p)
    ELSE PackHeaderSystem(d,
            IF pk1.data = system_header_start_code
            THEN SystemHeader(d, p2)
            ELSE [err |-> "none", p |-> p2, sh |-> NoSystemHeader])

\* PackHeaderRead without the comparison of the header with the start code
PackHeaderReadAnyStart(d, data, p1) ==
    IF b_01(data) # 1 THEN PackFail("InvalidFixedBitsException", p1)
    ELSE IF marker_0(data) = 0 \/ marker_1(data) = 0 \/ marker_2(data) = 0
            \/ marker_3(data) = 0 \/ marker_4(data) = 0 \/ marker_5(data) = 0
    THEN PackFail("InvalidMarkerException", p1)
    ELSE PackHeaderStuffed(d, HAdvance(d, p1, pack_stuffing_length(data)),
                           peek(d, HAdvance(d, p1, pack_stuffing_length(data)), 4))

\* lines 27-44: data is self.data, p1 the cursor after the 14 bytes
PackHeaderRead(d, data, p1) ==
    IF b_01(data) # 1 THEN PackFail("InvalidFixedBitsException", p1)
    ELSE IF marker_0(data) = 0 \/ marker_1(data) = 0 \/ marker_2(data) = 0
            \/ marker_3(data) = 0 \/ marker_4(data) = 0 \/ marker_5(data) = 0
    THEN PackFail("InvalidMarkerException", p1)
    ELSE IF Slice(data, 0, 4) # pack_start_code
    THEN PackFail("AssertionError", p1)
    ELSE PackHeaderStuffed(d, HAdvance(d, p1, pack_stuffing_length(data)),
                           peek(d, HAdvance(d, p1, pack_stuffing_length(data)), 4))

\* PackStartHeader.__init__ up to the loop over the PES packets
PackHeader(d, p0) ==
    PackHeaderRead(d, HReadInto(d, p0, PackSize), HAdvance(d, p0, PackSize))

(***************************************************************************)
(* psdemuxer/__init__.py: MPEG2ProgramStream                               *)
(***************************************************************************)
NoPack == [pos |-> None, system_header |-> NoSystemHeader, pes_list |-> <<>>]
NoPes == [pos |-> None, stream_id |-> None, pes_packet_length |-> 0,
          flag_data |-> NoFlagData, header_length |-> 0,
          pes_packet_data_bytes_n |-> 0, private_stream_id |-> None]
NoAttempt == [err |-> "none", pes |-> NoPes]

\* the keys of the dict pes_types
Keys(types) == {types[i].stream_id : i \in 1..Len(types)}

\* the loop without its "not in self.pes_types" test: the last packet wins
RECURSIVE AddTypesLast(_, _)
AddTypesLast(types, pes_list) ==
    IF pes_list = <<>> THEN types
    ELSE LET pes == Head(pes_list)
             entry == [stream_id |-> pes.stream_id, pes |-> pes]
         IN  AddTypesLast(IF pes.stream_id \notin Keys(types)
                          THEN Append(types, entry)
                          ELSE [i \in 1..Len(types) |->
                                   IF types[i].stream_id = pes.stream_id
                                   THEN entry ELSE types[i]],
                          Tail(pes_list))

\* "for pes in psh.pes_list: if pes.stream_id not in self.pes_types: ..."
RECURSIVE AddTypes(_, _)
AddTypes(types, pes_list) ==
    IF pes_list = <<>> THEN types
    ELSE LET pes == Head(pes_list)
         IN  AddTypes(IF pes.stream_id \notin Keys(types)
                      THEN Append(types, [stream_id |-> pes.stream_id, pes |-> pes])
                      ELSE types,
                      Tail(pes_list))

\* the offsets of the n bytes at cursor p that the handle holds
Span(d, p, n) == {i \in p..(p + n - 1) : 0 <= i /\ i < Len(d)}

\* a PESPacket.__init__ that reads the payload into pes_packet_data_bytes
\* where the code seeks past it
PESPacketReadsPayload(d, p0) ==
    LET r == PESPacket(d, p0)
    IN  Span(d, p0, r.p - p0)

\* the offsets PESPacket.__init__ reads at cursor p0: the six bytes, the
\* FlagData header and, for private_stream_1, the byte peek(fh, 1) looks at
PESPacketReads(d, p0) ==
    LET pos == HAdvance(d, p0, 6)
        stream_id == At(HReadInto(d, p0, 6), 3)
        fd == FlagData(d, pos)
    IN  IF stream_id \in NoFlagDataIds THEN Span(d, p0, 6)
        ELSE Span(d, p0, fd.p - p0)
             \cup (IF fd.err = "none"
                      /\ stream_id = get_stream_id_by_name(Name("private_stream_1"))
                   THEN Span(d, fd.p, 1) ELSE {})

\* the offsets PackStartHeader.__init__ reads at cursor p0 before its loop:
\* the bytes up to the cursor r.p it ends at and the four bytes of the last
\* peek; a peek that fails has read up to the end of the file
PackHeaderReads(d, p0) ==
    LET r == PackHeader(d, p0)
    IN  IF r.err = "none" THEN Span(d, p0, r.p + 4 - p0)
        ELSE IF r.err \in {"AssertionError", "OSError"} THEN Span(d, p0, Len(d))
        ELSE Span(d, p0, r.p - p0)

\* PackStartHeader(fh), lines 19-49: the header, the stuffing, the system
\* header and the first peek
PackStart ==
    /\ pc = "pack"
    /\ \E r \in {PackHeader(hdata["file"], hpos["file"])} :
           /\ hpos' = [hpos EXCEPT !["file"] = r.p]
           /\ psh' = [pos |-> hpos["file"], system_header |-> r.sh,
                      pes_list |-> <<>>]
           /\ err' = r.err
           /\ next_bits' = r.next_bits
           /\ pc' = IF r.err = "none" THEN "pes" ELSE "failed"
    /\ ix_read' = ix_read \cup PackHeaderReads(hdata["file"], hpos["file"])
    /\ UNCHANGED <<otherVars, hdata, pack_list, pes_types, cur_pes, bsVars, srVars,
                   siVars, rdVars>>

\* the condition of "while next_bits[:3] == packet_start_code_prefix" and its
\* two breaks
MorePes(bits) ==
    /\ Slice(bits, 0, 3) = start_code_prefix
    /\ bits # pack_start_code
    /\ bits # program_end_code

\* one turn of the loop: PESPacket(self, fh), append, peek
PesStep ==
    /\ pc = "pes"
    /\ MorePes(next_bits)
    /\ \E r \in {PESPacket(hdata["file"], hpos["file"])} :
       LET pk == peek(hdata["file"], r.p, 4)
       IN  /\ cur_pes' = [err |-> r.err, pes |-> r.pes]
           /\ IF r.err # "none"
              THEN /\ err' = r.err
                   /\ pc' = "failed"
                   /\ hpos' = [hpos EXCEPT !["file"] = r.p]
                   /\ UNCHANGED <<psh, next_bits>>
              ELSE /\ psh' = [psh EXCEPT !.pes_list = Append(@, r.pes)]
                   /\ hpos' = [hpos EXCEPT !["file"] = pk.p]
                   /\ err' = pk.err
                   /\ pc' = IF pk.err = "none" THEN "pes" ELSE "failed"
                   /\ next_bits' = IF pk.err = "none" THEN pk.data ELSE next_bits
           /\ ix_read' = ix_read \cup PESPacketReads(hdata["file"], hpos["file"])
                             \cup (IF r.err # "none" THEN {}
                                   ELSE Span(hdata["file"], r.p, 4))
    /\ UNCHANGED <<otherVars, hdata, pack_list, pes_types, bsVars, srVars, siVars, rdVars>>

\* the loop is over: PackStartHeader returns, MPEG2ProgramStream.__init__
\* appends the pack, records the new stream ids and peeks for the end code
PackEnd ==
    /\ pc = "pes"
    /\ ~MorePes(next_bits)
    /\ LET pk == peek(hdata["file"], hpos["file"], 4)
       IN  /\ pack_list' = Append(pack_list, psh)
           /\ pes_types' = AddTypes(pes_types, psh.pes_list)
           /\ hpos' = [hpos EXCEPT !["file"] = pk.p]
           /\ err' = pk.err
           /\ pc' = IF pk.err # "none" THEN "failed"
                    ELSE IF pk.data = program_end_code THEN "done"
                    ELSE "pack"
    /\ ix_read' = ix_read \cup Span(hdata["file"], hpos["file"], 4)
    /\ UNCHANGED <<otherVars, hdata, psh, next_bits, cur_pes, bsVars, srVars, siVars,
                   rdVars>>

\* every PES packet of the index, pack by pack
RECURSIVE AllPes(_)
AllPes(packs) ==
    IF packs = <<>> THEN <<>> ELSE Head(packs).pes_list \o AllPes(Tail(packs))

\* the loops of stream_iter without "if pes.stream_id == stream_id"
SelectAll(pes_list, stream_id) == pes_list

\* the loops "for psh ... for pes ... if pes.stream_id == stream_id: yield pes"
RECURSIVE Select(_, _)
Select(pes_list, stream_id) ==
    IF pes_list = <<>> THEN <<>>
    ELSE (IF Head(pes_list).stream_id = stream_id THEN <<Head(pes_list)>> ELSE <<>>)
         \o Select(Tail(pes_list), stream_id)

\* an argument of stream_iter: an int or a str
IntArg(id) == [kind |-> "int", id |-> id, name |-> NoName]
StrArg(name) == [kind |-> "str", id |-> None, name |-> name]
NoArg == [kind |-> "none", id |-> None, name |-> NoName]

\* stream_iter without "if stream_id not in self.pes_types"
stream_iter_unchecked(packs, types, arg) ==
    LET stream_id_ == get_stream_id_by_name(arg.name)
        stream_id == IF arg.kind = "str" THEN stream_id_ ELSE arg.id
    IN  IF arg.kind = "str" /\ stream_id_ = None
        THEN [err |-> "ValueError: invalid stream_id", out |-> <<>>]
        ELSE [err |-> "none", out |-> Select(AllPes(packs), stream_id)]

\* MPEG2ProgramStream.stream_iter(stream_id), run to its end
stream_iter(packs, types, arg) ==
    LET stream_id_ == get_stream_id_by_name(arg.name)
        stream_id == IF arg.kind = "str" THEN stream_id_ ELSE arg.id
    IN  IF arg.kind = "str" /\ stream_id_ = None
        THEN [err |-> "ValueError: invalid stream_id", out |-> <<>>]
        ELSE IF stream_id \notin Keys(types)
        THEN [err |-> "ValueError: stream_id not found", out |-> <<>>]
        ELSE [err |-> "none", out |-> Select(AllPes(packs), stream_id)]

\* MPEG2ProgramStream.streams()
streams(types) == [i \in 1..Len(types) |-> <<types[i].stream_id, types[i].pes>>]

\* arguments the callers pass
IxArgs ==
    {IntArg(224), IntArg(192), IntArg(190), IntArg(240), IntArg(225),
     StrArg(NumberedName("video stream number ", 0)),
     StrArg(NumberedName("audio stream number ", 0)),
     StrArg(Name("padding_stream")), StrArg(Name("DSMCC_stream")),
     StrArg(Name("zzz"))}

StreamIter(arg) ==
    /\ pc = "done"
    /\ si_arg = NoArg
    /\ LET r == stream_iter(pack_list, pes_types, arg)
       IN  /\ si_arg' = arg
           /\ si_out' = r.out
           /\ si_err' = r.err
    /\ UNCHANGED <<otherVars, hdata, hpos, ixVars, bsVars, srVars, rdVars>>

(***************************************************************************)
(* streams/reader.py: StreamIdReader                                       *)
(***************************************************************************)
\* the loop of StreamIdReader.__init__ that builds segment_info
RECURSIVE BuildSegments(_, _, _)
BuildSegments(pes_packets, data_so_far, segment_info) ==
    IF pes_packets = <<>> THEN segment_info
    ELSE LET pes == Head(pes_packets)
             segment == SegmentInfo("file", pes.pos + pes.header_length,
                                    data_so_far, pes.pes_packet_data_bytes_n)
         IN  BuildSegments(Tail(pes_packets),
                           data_so_far + pes.pes_packet_data_bytes_n,
                           Append(segment_info, segment))

\* buffer_size of BufferedStreamReader: the size of the reads it issues
BufferSize == 4096

\* StreamIdReader(m2ps, stream_id, fh)
OpenReader(arg) ==
    /\ pc = "done"
    /\ si_arg = NoArg
    /\ LET r == stream_iter(pack_list, pes_types, arg)
           segs == BuildSegments(r.out, 0, <<>>)
       IN  /\ si_arg' = arg
           /\ si_out' = r.out
           /\ si_err' = r.err
           /\ IF r.err # "none"
              THEN UNCHANGED <<srVars, rdVars>>
              ELSE /\ rd_arg' = arg
                   /\ rd_out' = <<>>
                   /\ rd_eof' = FALSE
                   /\ sr_segs' = segs
                   /\ sr_total' = TotalSize(segs)
                   /\ sr_position' = 0
                   /\ sr_offset' = 0
                   /\ UNCHANGED <<sr_ret, sr_err, sr_ops>>
    /\ UNCHANGED <<otherVars, hdata, hpos, ixVars, bsVars>>

\* one read of the buffered reader from the StreamReader below it; reading
\* ends with the first empty read
ReaderRead ==
    /\ rd_arg # NoArg
    /\ ~rd_eof
    /\ sr_err = "none"
    /\ LET r == ReadOp(sr_segs, sr_total, hdata, hpos, sr_position, sr_offset,
                       BufferSize)
       IN  /\ sr_position' = r.position
           /\ sr_offset' = r.offset
           /\ sr_ret' = r.data
           /\ sr_err' = r.err
           /\ hpos' = r.hp
           /\ sr_ops' = [op |-> "read", arg |-> BufferSize, whence |-> None,
                         before |-> 0, prev |-> LastCall]
           /\ rd_out' = rd_out \o r.data
           /\ rd_eof' = (r.err = "none" /\ r.data = <<>>)
    /\ UNCHANGED <<otherVars, hdata, sr_segs, sr_total, rd_arg, ixVars, bsVars, siVars>>

(***************************************************************************)
(* streams/private/dvdac3.py: DVDAC3Audio and DVDAC3Stream                 *)
(***************************************************************************)
ac3_substream_number == 128
ac3_header_length == 4
ac3_sync_word == <<11, 119>>

\* DVDAC3Audio(pes, fh, is_first); the finally clause puts the cursor of the
\* handle back where it was, so the handle is left as it was found
DVDAC3Audio(d, pes, is_first) ==
    LET start == pes.pos + pes.header_length
        data == HReadInto(d, start, 4)
        sync_word == peek(d, HAdvance(d, start, 4), 2)
        audio(e) == [err |-> e, pes |-> pes, is_first |-> is_first,
                     data_length |-> pes.pes_packet_data_bytes_n - ac3_header_length]
    IN  IF ~(pes.stream_id = get_stream_id_by_name(Name("private_stream_1"))
             /\ pes.header_length = 17)
        THEN audio("WrongPrivateStream")
        ELSE IF sync_word.err # "none" THEN audio(sync_word.err)
        ELSE IF is_first /\ (At(data, 0) # ac3_substream_number
                             \/ sync_word.data # ac3_sync_word)
        THEN audio("WrongPrivateStream")
        ELSE audio("none")

\* the loop "for n, pes in enumerate(pes_iter)" of DVDAC3Stream.__init__;
\* audio is the list of the DVDAC3Audio objects built so far
RECURSIVE AC3Segments(_, _, _, _, _)
AC3SegmentsNext(d, pes_packets, data_so_far, st, ac3_audio) ==
    IF ac3_audio.err # "none"
    THEN [err |-> ac3_audio.err, segs |-> st.segs,
          audio |-> Append(st.audio, ac3_audio)]
    ELSE AC3Segments(d, Tail(pes_packets),
                     data_so_far + ac3_audio.data_length,
                     [segs |-> Append(st.segs,
                          SegmentInfo("file",
                                      ac3_audio.pes.pos + ac3_audio.pes.header_length
                                         + ac3_header_length,
                                      data_so_far, ac3_audio.data_length)),
                      audio |-> Append(st.audio, ac3_audio)],
                     FALSE)

AC3Segments(d, pes_packets, data_so_far, st, is_first) ==
    IF pes_packets = <<>>
    THEN [err |-> "none", segs |-> st.segs, audio |-> st.audio]
    ELSE AC3SegmentsNext(d, pes_packets, data_so_far, st,
                         DVDAC3Audio(d, Head(pes_packets), is_first))

\* DVDAC3Stream(fh, m2ps.stream_iter("private_stream_1"))
DVDAC3Stream(d, packs, types) ==
    LET it == stream_iter(packs, types, StrArg(Name("private_stream_1")))
    IN  IF it.err # "none" THEN [err |-> it.err, segs |-> <<>>, audio |-> <<>>]
        ELSE AC3Segments(d, it.out, 0, [segs |-> <<>>, audio |-> <<>>], TRUE)

OpenAC3 ==
    /\ pc = "done"
    /\ pv_kind = "none"
    /\ rd_arg = NoArg
    /\ \E r \in {DVDAC3Stream(hdata["file"], pack_list, pes_types)} :
          /\ pv_kind' = "ac3"
          /\ pv_err' = r.err
          /\ pv_audio' = r.audio
          /\ IF r.err # "none"
             THEN UNCHANGED srVars
             ELSE /\ sr_segs' = r.segs
                  /\ sr_total' = TotalSize(r.segs)
                  /\ sr_position' = 0
                  /\ sr_offset' = 0
                  /\ UNCHANGED <<sr_ret, sr_err, sr_ops>>
    /\ UNCHANGED <<pv_out, pv_eof, pv_pcm, pv_last, shVars, vdVars, hdata, hpos,
                   bsVars, ixVars, siVars, rdVars>>

\* one read of the BufferedReader of the DVDAC3Stream from the StreamReader
\* below it; reading ends with the first empty read
AC3Read ==
    /\ pv_kind = "ac3"
    /\ pv_err = "none"
    /\ ~pv_eof
    /\ sr_err = "none"
    /\ \E r \in {ReadOp(sr_segs, sr_total, hdata, hpos, sr_position, sr_offset,
                        BufferSize)} :
          /\ sr_position' = r.position
          /\ sr_offset' = r.offset
          /\ sr_ret' = r.data
          /\ sr_err' = r.err
          /\ hpos' = r.hp
          /\ sr_ops' = [op |-> "read", arg |-> BufferSize, whence |-> None,
                        before |-> 0, prev |-> LastCall]
          /\ pv_out' = pv_out \o r.data
          /\ pv_eof' = (r.err = "none" /\ r.data = <<>>)
    /\ UNCHANGED <<pv_kind, pv_err, pv_audio, pv_pcm, pv_last, shVars, vdVars, hdata,
                   sr_segs, sr_total, bsVars, ixVars, siVars, rdVars>>

(***************************************************************************)
(* streams/private/ps2pcm.py: PS2PCMAudio, WAVHeader and _PS2PCMStream     *)
(***************************************************************************)
full_header_length == 63
sub_header_length == 23
block_data_start == 6
header_size == 44
pcm_interleave_size == 512

\* data[o] | data[o + 1] << 8 | data[o + 2] << 16 | data[o + 3] << 24
LittleEndian32(data, o) ==
    At(data, o) + 256 * At(data, o + 1) + 65536 * At(data, o + 2)
        + 16777216 * At(data, o + 3)

\* the bytes of a c_uint32 and of a c_uint16 field of a
\* LittleEndianStructure: the low bytes of the value
UInt32Bytes(x) ==
    <<x % 256, (x \div 256) % 256, (x \div 65536) % 256,
      (x \div 16777216) % 256>>
UInt16Bytes(x) == <<x % 256, (x \div 256) % 256>>

\* the condition of PS2PCMAudio.__init__ on the header bytes it read; the
\* conditions are evaluated in order, and the last one divides by
\* num_channels * 0x200
PS2PCMAudioCheck(data, is_first) ==
    IF ~(Slice(data, 0, 4) = <<0, 0, 1, 189>> /\ At(data, 20) \in {160, 161})
    THEN "WrongPrivateStream"
    ELSE IF ~is_first THEN "none"
    ELSE IF Slice(data, 23, 27) # <<83, 83, 104, 100>>
    THEN "WrongPrivateStream"
    ELSE IF ~(/\ LittleEndian32(data, 31) \in {0, 1, 2}
              /\ LittleEndian32(data, 43) = pcm_interleave_size
              /\ Slice(data, 55, 59) = <<83, 83, 98, 100>>)
    THEN "WrongPrivateStream"
    ELSE IF LittleEndian32(data, 39) = 0 THEN "ZeroDivisionError"
    ELSE IF LittleEndian32(data, 59)
               % (LittleEndian32(data, 39) * pcm_interleave_size) # 0
    THEN "WrongPrivateStream"
    ELSE "none"

\* the properties of a PS2PCMAudio that _PS2PCMStream reads; those of the
\* first header are read only after the check has passed
PS2PCMAudioChecked(pes, is_first, data, e) ==
    LET first == is_first /\ e = "none"
    IN  [err |-> e,
         pes |-> pes,
         is_first |-> is_first,
         header_length |-> IF is_first THEN full_header_length
                           ELSE sub_header_length,
         audio_data_size |-> (At(data, 4) * 256 + At(data, 5))
                                 - (Len(data) - block_data_start),
         sampling_rate |-> IF first THEN LittleEndian32(data, 35) ELSE 0,
         num_channels |-> IF first THEN LittleEndian32(data, 39) ELSE 0,
         interleave_size |-> IF first THEN LittleEndian32(data, 43) ELSE 0,
         total_audio_data_size |-> IF first THEN LittleEndian32(data, 59)
                                   ELSE 0]

PS2PCMAudioRead(pes, is_first, data) ==
    PS2PCMAudioChecked(pes, is_first, data, PS2PCMAudioCheck(data, is_first))

\* PS2PCMAudio(pes, fh, is_first); the cursor of the handle is put back
PS2PCMAudio(d, pes, is_first) ==
    PS2PCMAudioRead(pes, is_first,
                    HReadInto(d, pes.pos,
                              IF is_first THEN full_header_length
                              ELSE sub_header_length))

\* bytes(wav_header) as _PS2PCMStream.__init__ fills it from the first PES
WAVHeaderBytes(ps2_audio) ==
    LET num_channels == ps2_audio.num_channels % 65536
        block_align == (num_channels * 2) % 65536
    IN  <<82, 73, 70, 70>>
        \o UInt32Bytes(36 + ps2_audio.total_audio_data_size)
        \o <<87, 65, 86, 69>> \o <<102, 109, 116, 32>>
        \o UInt32Bytes(16) \o UInt16Bytes(1) \o UInt16Bytes(num_channels)
        \o UInt32Bytes(ps2_audio.sampling_rate)
        \o UInt32Bytes(ps2_audio.sampling_rate * block_align)
        \o UInt16Bytes(block_align) \o UInt16Bytes(16)
        \o <<100, 97, 116, 97>>
        \o UInt32Bytes(ps2_audio.total_audio_data_size)

\* _PS2PCMStream.__init__, lines 76-82: the fields before the first PES
NoPCM == [total_audio_data_size |-> 0, audio_data_size |-> 0,
          audio_interleave |-> 0, num_channels |-> 1,
          interleave_buffer_block |-> -1, interleave_buffer_cache |-> <<>>]

NoPCMRead == [size |-> 0, before |-> 0, data |-> <<>>, err |-> "none",
              after |-> 0, cached |-> -1, called |-> FALSE]

\* what __init__ has built so far: the segments, the header handle, the
\* padding handle, the fields of the stream and the PS2PCMAudio objects
NoPCMStream == [err |-> "none", segs |-> <<>>, header |-> <<>>,
                missing |-> <<>>, audio |-> <<>>, pcm |-> NoPCM]

\* lines 92-115: the first PES sets the fields and adds the header segment
PCMWithHeader(st, ps2_audio) ==
    [st EXCEPT
        !.pcm = [@ EXCEPT
                    !.total_audio_data_size = ps2_audio.total_audio_data_size,
                    !.audio_interleave = ps2_audio.interleave_size,
                    !.num_channels = ps2_audio.num_channels],
        !.header = WAVHeaderBytes(ps2_audio),
        !.segs = Append(@, SegmentInfo("mem", 0, 0, header_size))]

\* lines 117-125: the segment of one PES
PCMWithSegment(st, ps2_audio) ==
    [st EXCEPT
        !.segs = Append(@, SegmentInfo("file",
                                       ps2_audio.pes.pos + ps2_audio.header_length,
                                       header_size + st.pcm.audio_data_size,
                                       ps2_audio.audio_data_size)),
        !.pcm = [@ EXCEPT !.audio_data_size = @ + ps2_audio.audio_data_size],
        !.audio = Append(@, ps2_audio)]

\* the loop "for n, pes in enumerate(pes_iter)"
RECURSIVE PCMSegments(_, _, _, _)
PCMSegmentsNext(d, pes_packets, st, ps2_audio) ==
    IF ps2_audio.err # "none"
    THEN [st EXCEPT !.err = ps2_audio.err, !.audio = Append(@, ps2_audio)]
    ELSE PCMSegments(d, Tail(pes_packets),
                     PCMWithSegment(IF ps2_audio.is_first
                                    THEN PCMWithHeader(st, ps2_audio)
                                    ELSE st,
                                    ps2_audio),
                     FALSE)

PCMSegments(d, pes_packets, st, is_first) ==
    IF pes_packets = <<>> THEN st
    ELSE PCMSegmentsNext(d, pes_packets, st,
                         PS2PCMAudio(d, Head(pes_packets), is_first))

\* the padding without "assert missing_bytes < self.audio_interleave": any
\* shortfall is filled with zeros
PCMPaddedAnyShortfall(st, missing_bytes) ==
    IF st.err # "none"
          \/ st.pcm.audio_data_size = st.pcm.total_audio_data_size
    THEN st
    ELSE IF ~(st.pcm.audio_data_size < st.pcm.total_audio_data_size)
    THEN [st EXCEPT !.err = "AssertionError"]
    ELSE [st EXCEPT
             !.missing = Zeros(missing_bytes),
             !.segs = Append(@, SegmentInfo("pad", 0,
                                            header_size + st.pcm.audio_data_size,
                                            missing_bytes)),
             !.pcm = [@ EXCEPT !.audio_data_size = @ + missing_bytes]]

\* lines 127-148: the zero segment for the bytes that are missing
PCMPadded(st, missing_bytes) ==
    IF st.err # "none"
          \/ st.pcm.audio_data_size = st.pcm.total_audio_data_size
    THEN st
    ELSE IF ~(st.pcm.audio_data_size < st.pcm.total_audio_data_size)
    THEN [st EXCEPT !.err = "AssertionError"]
    ELSE IF ~(missing_bytes < st.pcm.audio_interleave)
    THEN [st EXCEPT !.err = "AssertionError"]
    ELSE [st EXCEPT
             !.missing = Zeros(missing_bytes),
             !.segs = Append(@, SegmentInfo("pad", 0,
                                            header_size + st.pcm.audio_data_size,
                                            missing_bytes)),
             !.pcm = [@ EXCEPT !.audio_data_size = @ + missing_bytes]]

PCMStreamBuilt(st) ==
    PCMPadded(st, st.pcm.total_audio_data_size - st.pcm.audio_data_size)

\* _PS2PCMStream(fh, m2ps.stream_iter("private_stream_1"))
PS2PCMStream(d, packs, types) ==
    LET it == stream_iter(packs, types, StrArg(Name("private_stream_1")))
    IN  IF it.err # "none" THEN [NoPCMStream EXCEPT !.err = it.err]
        ELSE PCMStreamBuilt(PCMSegments(d, it.out, NoPCMStream, TRUE))

\* reinterleave(data): the uint16 samples of data as two rows, transposed;
\* numpy raises ValueError when the bytes are not whole samples or the
\* samples are not two rows
reinterleave(data) ==
    IF Len(data) % 4 # 0 THEN [err |-> "ValueError", data |-> <<>>]
    ELSE [err |-> "none",
          data |-> [k \in 1..Len(data) |->
                      LET sample == (k - 1) \div 2
                          row == sample % 2
                          col == sample \div 2
                      IN  At(data, 2 * (row * (Len(data) \div 4) + col)
                                      + ((k - 1) % 2))]]

\* the reader while _PS2PCMStream.read runs: where it stands, the cursors of
\* the handles, the one block cache and the bytes collected
PCMReading(position, offset, hp, pcm) ==
    [err |-> "none", position |-> position, offset |-> offset, hp |-> hp,
     block |-> pcm.interleave_buffer_block,
     cache |-> pcm.interleave_buffer_cache,
     data |-> <<>>]

\* self.seek(offset) inside read
PCMSought(segs, total, rd, offset) ==
    LET r == SeekOp(segs, total, rd.position, rd.offset, offset, SEEK_SET)
    IN  [rd EXCEPT !.position = r.position, !.offset = r.offset]

\* super().read(size) inside read: the bytes are appended to data
PCMSuperRead(segs, total, hd, rd, size) ==
    LET r == ReadOp(segs, total, hd, rd.hp, rd.position, rd.offset, size)
    IN  [rd EXCEPT !.err = r.err, !.position = r.position,
                   !.offset = r.offset, !.hp = r.hp, !.data = @ \o r.data]

\* lines 192-195: the block that was read is reinterleaved and cached
PCMBlockCached(rd, interleave_block, interleaved_data, cache) ==
    IF rd.err # "none" THEN [rd EXCEPT !.data = interleaved_data]
    ELSE IF cache.err # "none"
    THEN [rd EXCEPT !.err = cache.err, !.block = interleave_block,
                    !.data = interleaved_data]
    ELSE [rd EXCEPT !.block = interleave_block, !.cache = cache.data,
                    !.data = interleaved_data \o cache.data]

\* lines 190-191: data = super().read(interleave_size) at the block
PCMBlockRead(rd, interleave_block, interleaved_data, r) ==
    PCMBlockCached(r, interleave_block, interleaved_data,
                   IF r.err # "none" THEN [err |-> r.err, data |-> <<>>]
                   ELSE reinterleave(r.data))

\* the loop of lines 188-195 from interleave_block up to stop - 1
RECURSIVE PCMBlocks(_, _, _, _, _, _, _)
PCMBlocks(segs, total, hd, rd, interleave_block, stop, interleave_size) ==
    IF interleave_block >= stop \/ rd.err # "none" THEN rd
    ELSE IF rd.block = interleave_block
    THEN PCMBlocks(segs, total, hd, [rd EXCEPT !.data = @ \o rd.cache],
                   interleave_block + 1, stop, interleave_size)
    ELSE PCMBlocks(segs, total, hd,
                   PCMBlockRead(rd, interleave_block, rd.data,
                       PCMSuperRead(segs, total, hd,
                           [PCMSought(segs, total, rd,
                                      header_size
                                         + interleave_block * interleave_size)
                              EXCEPT !.data = <<>>],
                           interleave_size)),
                   interleave_block + 1, stop, interleave_size)

\* lines 197-199: self.seek(pos + size) and the slice that is returned
PCMReturn(segs, total, rd, pos, size, start) ==
    IF rd.err # "none" THEN rd
    ELSE [PCMSought(segs, total, rd, pos + size)
            EXCEPT !.data = Slice(rd.data, start, start + size)]

\* lines 179-186: the header, or the seek to the first block
PCMReadFrom(segs, total, hd, rd, pos, interleave_block_from, interleave_size) ==
    IF pos < header_size
    THEN PCMSuperRead(segs, total, hd, PCMSought(segs, total, rd, 0),
                      header_size)
    ELSE PCMSought(segs, total, rd,
                   header_size + interleave_block_from * interleave_size)

\* lines 175-199 with interleave_size and the blocks that are read
PCMReadRange(segs, total, hd, rd, pos, size, isize, block_from, block_to) ==
    PCMReturn(segs, total,
              PCMBlocks(segs, total, hd,
                        PCMReadFrom(segs, total, hd, rd, pos, block_from,
                                    isize),
                        block_from,
                        block_from + (block_to - block_from + 1),
                        isize),
              pos, size,
              IF pos < header_size THEN pos
              ELSE pos - header_size - block_from * isize)

\* lines 165-177 once size is known
PCMReadSized(segs, total, hd, rd, pcm, pos, size) ==
    IF pos < header_size /\ pos + size < header_size
    THEN PCMSuperRead(segs, total, hd, rd, size)
    ELSE PCMReadRange(segs, total, hd, rd, pos, size,
                      pcm.audio_interleave * pcm.num_channels,
                      Max(0, pos - header_size)
                         \div (pcm.audio_interleave * pcm.num_channels),
                      (Max(0, pos - header_size) + (size - header_size))
                         \div (pcm.audio_interleave * pcm.num_channels))

\* lines 156-163: pos, remaining_bytes and size
PCMReadAt(segs, total, hd, rd, pcm, pos, size) ==
    PCMReadSized(segs, total, hd, rd, pcm, pos,
                 IF ~(size >= 0)
                 THEN header_size + pcm.total_audio_data_size - pos
                 ELSE Min(size,
                          header_size + pcm.total_audio_data_size - pos))

\* _PS2PCMStream.read(size)
PCMReadOp(segs, total, hd, rd, pcm, size) ==
    IF pcm.num_channels = 1 THEN PCMSuperRead(segs, total, hd, rd, size)
    ELSE PCMReadAt(segs, total, hd, rd, pcm,
                   current_virtual_pos(segs, rd.position, rd.offset), size)

OpenPCM ==
    /\ pc = "done"
    /\ pv_kind = "none"
    /\ rd_arg = NoArg
    /\ \E r \in {PS2PCMStream(hdata["file"], pack_list, pes_types)} :
          /\ pv_kind' = "pcm"
          /\ pv_err' = r.err
          /\ pv_audio' = r.audio
          /\ IF r.err # "none"
             THEN UNCHANGED <<srVars, hdata, pv_pcm>>
             ELSE /\ sr_segs' = r.segs
                  /\ sr_total' = TotalSize(r.segs)
                  /\ sr_position' = 0
                  /\ sr_offset' = 0
                  /\ pv_pcm' = r.pcm
                  /\ hdata' = [hdata EXCEPT !["mem"] = r.header,
                                            !["pad"] = r.missing]
                  /\ UNCHANGED <<sr_ret, sr_err, sr_ops>>
    /\ UNCHANGED <<pv_out, pv_eof, pv_last, shVars, vdVars, hpos, bsVars, ixVars,
                   siVars, rdVars>>

\* stream_reader.seek(offset) of a _PS2PCMStream with a first PES
PCMSeek(offset) ==
    /\ pv_kind = "pcm"
    /\ pv_err = "none"
    /\ pv_audio # <<>>
    /\ sr_err = "none"
    /\ \E r \in {SeekOp(sr_segs, sr_total, sr_position, sr_offset, offset,
                        SEEK_SET)} :
          /\ sr_position' = r.position
          /\ sr_offset' = r.offset
          /\ sr_ret' = r.ret
          /\ sr_err' = r.err
          /\ sr_ops' = [op |-> "seek", arg |-> offset, whence |-> SEEK_SET,
                        before |-> 0, prev |-> NoCall]
          /\ pv_last' = NoPCMRead
    /\ UNCHANGED <<pv_kind, pv_err, pv_audio, pv_out, pv_eof, pv_pcm, shVars, vdVars,
                   hdata, hpos, sr_segs, sr_total, bsVars, ixVars, siVars,
                   rdVars>>

\* stream_reader.read(size) of a _PS2PCMStream with a first PES
PCMRead(size) ==
    /\ pv_kind = "pcm"
    /\ pv_err = "none"
    /\ pv_audio # <<>>
    /\ sr_err = "none"
    /\ \E r \in {PCMReadOp(sr_segs, sr_total, hdata,
                           PCMReading(sr_position, sr_offset, hpos, pv_pcm),
                           pv_pcm, size)} :
          /\ sr_position' = r.position
          /\ sr_offset' = r.offset
          /\ sr_ret' = r.data
          /\ sr_err' = r.err
          /\ hpos' = r.hp
          /\ sr_ops' = [op |-> "read", arg |-> size, whence |-> None,
                        before |-> 0, prev |-> LastCall]
          /\ pv_pcm' = [pv_pcm EXCEPT !.interleave_buffer_block = r.block,
                                      !.interleave_buffer_cache = r.cache]
          /\ pv_last' = [size |-> size, before |-> Tell, data |-> r.data,
                         err |-> r.err,
                         after |-> current_virtual_pos(sr_segs, r.position,
                                                       r.offset),
                         cached |-> pv_pcm.interleave_buffer_block,
                         called |-> TRUE]
    /\ UNCHANGED <<pv_kind, pv_err, pv_audio, pv_out, pv_eof, shVars, vdVars, hdata,
                   sr_segs, sr_total, bsVars, ixVars, siVars, rdVars>>

(***************************************************************************)
(* io/__init__.py: several StreamReaders over the same handle.  Each has   *)
(* its own segment_info, position and offset; the handle's cursor is the   *)
(* one thing they share.                                                   *)
(***************************************************************************)
Readers == 1..NumReaders

NoRead == [reader |-> 0, size |-> 0, before |-> 0, data |-> <<>>, err |-> "none"]

\* reader.seek(offset) of reader r
ShSeek(r, offset) ==
    /\ sh_last.err # "hang"
    /\ \E res \in {SeekOp(sh_readers[r].segs, sh_readers[r].total,
                          sh_readers[r].position, sh_readers[r].offset,
                          offset, SEEK_SET)} :
          sh_readers' = [sh_readers EXCEPT ![r].position = res.position,
                                           ![r].offset = res.offset]
    /\ sh_last' = NoRead
    /\ UNCHANGED <<pvVars, vdVars, hdata, hpos, bsVars, srVars, ixVars, siVars, rdVars>>

\* reader.read(size) of reader r
ShRead(r, size) ==
    /\ sh_last.err # "hang"
    /\ \E res \in {ReadOp(sh_readers[r].segs, sh_readers[r].total, hdata, hpos,
                          sh_readers[r].position, sh_readers[r].offset, size)} :
          /\ sh_readers' = [sh_readers EXCEPT ![r].position = res.position,
                                              ![r].offset = res.offset]
          /\ hpos' = res.hp
          /\ sh_last' = [reader |-> r, size |-> size,
                         before |-> current_virtual_pos(sh_readers[r].segs,
                                                        sh_readers[r].position,
                                                        sh_readers[r].offset),
                         data |-> res.data, err |-> res.err]
    /\ UNCHANGED <<pvVars, vdVars, hdata, bsVars, srVars, ixVars, siVars, rdVars>>

(***************************************************************************)
(* streams/video/mpeg2video.py: the walker of an MPEG-2 video stream.     *)
(* Every constructor is given the handle bytes d and the cursor p and     *)
(* yields the exception it raises ("none" when it returns) and the cursor *)
(* it leaves.                                                              *)
(***************************************************************************)
picture_start_code == <<0, 0, 1, 0>>
user_data_start_code == <<0, 0, 1, 178>>
sequence_header_code == <<0, 0, 1, 179>>
extension_start_code == <<0, 0, 1, 181>>
sequence_end_code == <<0, 0, 1, 183>>
group_start_code == <<0, 0, 1, 184>>

\* the dict extension_start_code_identifier: code -> name
extension_start_code_identifier ==
    [code \in 0..15 |->
        CASE code = 1 -> "Sequence Extension ID"
          [] code = 2 -> "Sequence Display Extension ID"
          [] code = 3 -> "Quant Matrix Extension ID"
          [] code = 4 -> "Copyright Extension ID"
          [] code = 5 -> "Sequence Scalable Extension ID"
          [] code = 7 -> "Picture Display Extension ID"
          [] code = 8 -> "Picture Coding Extension ID"
          [] code = 9 -> "Picture Spatial Scalable Extension ID"
          [] code = 10 -> "Picture Temporal Scalable Extension ID"
          [] OTHER -> "reserved"]

\* the first code of the dict that has the name, or None
get_extension_start_code_identifier(code_name) ==
    IF \E code \in 0..15 : extension_start_code_identifier[code] = code_name
    THEN CHOOSE code \in 0..15 :
            /\ extension_start_code_identifier[code] = code_name
            /\ \A c \in 0..(code - 1) :
                  extension_start_code_identifier[c] # code_name
    ELSE None

VideoOk(p) == [err |-> "none", p |-> p]
VideoFail(e, p) == [err |-> e, p |-> p]

\* utils.next_start_code(fh, check_zeros)
RECURSIVE next_start_code(_, _, _)
next_start_code(d, p, check_zeros) ==
    LET data == peek(d, p, 3)
    IN  IF data.err # "none" THEN VideoFail(data.err, data.p)
        ELSE IF data.data = start_code_prefix THEN VideoOk(p)
        ELSE IF check_zeros /\ HRead(d, p, 1) # <<0>>
        THEN VideoFail("MPEG2FileFormatException", p + 1)
        ELSE next_start_code(d, p + 1, check_zeros)

\* SequenceHeader.__init__: the resize for a quantiser matrix reads nothing
SequenceHeader(d, p) ==
    LET data == HReadInto(d, p, 12)
        marker_bit == Shr(BitAnd(At(data, 10), 32), 5)
    IN  IF Slice(data, 0, 4) # sequence_header_code
        THEN VideoFail("AssertionError", HAdvance(d, p, 12))
        ELSE IF marker_bit # 1
        THEN VideoFail("AssertionError", HAdvance(d, p, 12))
        ELSE VideoOk(HAdvance(d, p, 12))

SequenceExtension(d, p) == next_start_code(d, HAdvance(d, p, 10), TRUE)

\* Sequence.__init__, lines 1381-1385: nsc is the outcome of next_start_code
\* and peeked that of the peek
SequencePeeked(d, nsc, peeked) ==
    IF peeked.err # "none" THEN VideoFail(peeked.err, peeked.p)
    ELSE IF peeked.data # extension_start_code
    THEN VideoFail("MPEG2FileFormatException", nsc.p)
    ELSE SequenceExtension(d, nsc.p)

SequenceStarted(d, nsc) ==
    IF nsc.err # "none" THEN nsc
    ELSE SequencePeeked(d, nsc, peek(d, nsc.p, 4))

\* Sequence.__init__ up to the call of extension_and_user_data(fh, 0)
SequenceStart(d, p) ==
    LET sequence_header == SequenceHeader(d, p)
    IN  IF sequence_header.err # "none" THEN sequence_header
        ELSE SequenceStarted(d, next_start_code(d, sequence_header.p, TRUE))

\* SequenceDisplayExtension.__init__: one byte is read, the buffer grows by
\* three when colour_description is set, and marker_bit_0 indexes it
SequenceDisplayExtension(d, p) ==
    LET data == HReadInto(d, p, 1)
        colour_description == BitAnd(At(data, 0), 1)
        length == IF colour_description # 0 THEN 4 ELSE 1
        i == IF colour_description # 0 THEN 3 ELSE 1
        p1 == HAdvance(d, p, 1)
    IN  IF i + 1 >= length THEN VideoFail("IndexError", p1)
        ELSE VideoFail("InvalidMarkerException", p1)

\* SequenceScalableExtension.__init__ with the two scalability modes
SequenceScalableExtension(d, p) ==
    LET data == HReadInto(d, p, 2)
        scalable_mode == Shr(BitAnd(At(data, 0), 12), 2)
        p1 == HAdvance(d, p, 2)
        p2 == IF scalable_mode = 1 THEN HAdvance(d, p1 - 1, 7) ELSE p1
        p3 == IF scalable_mode = 3 THEN HAdvance(d, p2 - 1, 2) ELSE p2
    IN  next_start_code(d, p3, TRUE)

QuantMatrixExtension(d, p) == next_start_code(d, HAdvance(d, p, 1), TRUE)

CopyrightExtension(d, p) ==
    LET data == HReadInto(d, p, 11)
        marker_bit_0 == Shr(BitAnd(At(data, 2), 4), 2)
        marker_bit_1 == Shr(BitAnd(At(data, 5), 32), 5)
        marker_bit_2 == Shr(BitAnd(At(data, 8), 64), 6)
    IN  IF marker_bit_0 = 0 \/ marker_bit_1 = 0 \/ marker_bit_2 = 0
        THEN VideoFail("InvalidMarkerException", HAdvance(d, p, 11))
        ELSE VideoOk(HAdvance(d, p, 11))

\* seq.number_of_frame_centre_offsets is never set: it stays 0
PictureDisplayExtension(d, p) == next_start_code(d, HAdvance(d, p, 4), TRUE)

PictureSpatialScalableExtension(d, p) ==
    next_start_code(d, HAdvance(d, p, 7), TRUE)

PictureTemporalScalableExtension(d, p) ==
    next_start_code(d, HAdvance(d, p, 4), TRUE)

\* the attribute of ExtensionData that "if i == 0" and "if i == 2" fill for
\* the byte peeked
ExtensionAttribute(i, peeked) ==
    IF i = 0
    THEN IF peeked
              = get_extension_start_code_identifier("Sequence Display Extension ID")
         THEN "sequence_display_extension"
         ELSE "sequence_scalable_extension"
    ELSE IF peeked
              = get_extension_start_code_identifier("Quant Matrix Extension ID")
    THEN "quant_matrix_extension"
    ELSE IF peeked
              = get_extension_start_code_identifier("Copyright Extension ID")
    THEN "copyright_extension"
    ELSE IF peeked
              = get_extension_start_code_identifier("Picture Display Extension ID")
    THEN "picture_display_extension"
    ELSE IF peeked
              = get_extension_start_code_identifier("Picture Spatial Scalable Extension ID")
    THEN "picture_spatial_scalable_extension"
    ELSE "picture_temporal_scalable_extension"

\* the constructor of that attribute
ExtensionParsed(d, p, attribute) ==
    CASE attribute = "sequence_display_extension" -> SequenceDisplayExtension(d, p)
      [] attribute = "sequence_scalable_extension" -> SequenceScalableExtension(d, p)
      [] attribute = "quant_matrix_extension" -> QuantMatrixExtension(d, p)
      [] attribute = "copyright_extension" -> CopyrightExtension(d, p)
      [] attribute = "picture_display_extension" -> PictureDisplayExtension(d, p)
      [] attribute = "picture_spatial_scalable_extension"
            -> PictureSpatialScalableExtension(d, p)
      [] OTHER -> PictureTemporalScalableExtension(d, p)

NoExtension == [start |-> None, i |-> 0, attribute |-> "none", err |-> "none",
                p |-> None]

ExtensionDataParsed(p, i, attribute, sub) ==
    [start |-> p, i |-> i, attribute |-> attribute, err |-> sub.err, p |-> sub.p]

\* ExtensionData.__init__ once the four bytes are read and peeked past
ExtensionDataPeeked(d, p, i, p1, peeked) ==
    IF peeked.err # "none"
    THEN [start |-> p, i |-> i, attribute |-> "none", err |-> peeked.err,
          p |-> peeked.p]
    ELSE ExtensionDataParsed(p, i, ExtensionAttribute(i, At(peeked.data, 0)),
             ExtensionParsed(d, p1, ExtensionAttribute(i, At(peeked.data, 0))))

ExtensionData(d, p, i) ==
    IF HReadInto(d, p, 4) # extension_start_code \/ i \notin {0, 2}
    THEN [start |-> p, i |-> i, attribute |-> "none", err |-> "AssertionError",
          p |-> HAdvance(d, p, 4)]
    ELSE ExtensionDataPeeked(d, p, i, HAdvance(d, p, 4),
                             peek(d, HAdvance(d, p, 4), 1))

\* the loop "while more_data" of UserData.__init__ and the next_start_code
\* after it
RECURSIVE UserDataLoop(_, _)
UserDataLoop(d, p) ==
    LET peeked == peek(d, p, 3)
    IN  IF peeked.err # "none" THEN VideoFail(peeked.err, peeked.p)
        ELSE IF peeked.data # start_code_prefix
        THEN UserDataLoop(d, HAdvance(d, p, 1))
        ELSE next_start_code(d, p, TRUE)

UserData(d, p) == UserDataLoop(d, HAdvance(d, p, 4))

GroupOfPictureHeader(d, p) == next_start_code(d, HAdvance(d, p, 8), TRUE)

\* the BitStreamReader of PictureHeader.__init__: br.read(size) after the
\* reads that left br; bits counts the bits asked for so far
BrRead(d, br, size) ==
    IF br.err # "none" THEN br
    ELSE LET r == BitRead(d, br.p, br.position, br.current_byte, size)
         IN  [err |-> r.err, p |-> r.p, position |-> r.position,
              current_byte |-> r.current_byte, value |-> r.value,
              bits |-> IF r.err = "none" THEN br.bits + size ELSE br.bits]

\* "while extra_bit_picture": the flag is the one read before the loop;
\* extra is len(self.extra)
RECURSIVE PictureExtraLoop(_, _, _, _)
PictureExtraLoop(d, br, extra_bit_picture, extra) ==
    IF extra_bit_picture = 0 \/ br.err # "none"
    THEN [br |-> br, extra |-> extra]
    ELSE PictureExtraLoop(d, BrRead(d, br, 8), extra_bit_picture,
                          IF BrRead(d, br, 8).err = "none" THEN extra + 1
                          ELSE extra)

NoPicture == [start |-> None, picture_coding_type |-> 0, forward |-> FALSE,
              backward |-> FALSE, extra |-> 0, trailer_bits |-> 0,
              err |-> "none", p |-> None]

\* PictureHeader.__init__ from "extra_bit_picture = br.read(1)" on: br0 is
\* the reader before that read
PictureTrailer(d, p, picture_coding_type, br0) ==
    LET br1 == BrRead(d, br0, 1)
        loop == PictureExtraLoop(d, br1, IF 0 \in br1.value THEN 1 ELSE 0, 0)
        nsc == IF loop.br.err # "none" THEN VideoFail(loop.br.err, loop.br.p)
               ELSE next_start_code(d, loop.br.p, TRUE)
    IN  [start |-> p, picture_coding_type |-> picture_coding_type,
         forward |-> picture_coding_type \in {2, 3},
         backward |-> picture_coding_type = 3,
         extra |-> loop.extra,
         trailer_bits |-> loop.br.bits - br0.bits,
         err |-> nsc.err, p |-> nsc.p]

\* the reads of full_pel_backward_vector and backward_f_code
PictureBackward(d, p, picture_coding_type, br) ==
    PictureTrailer(d, p, picture_coding_type,
                   IF picture_coding_type = 3
                   THEN BrRead(d, BrRead(d, br, 1), 3) ELSE br)

\* the reads of full_pel_forward_vector and forward_f_code
PictureForward(d, p, picture_coding_type, br) ==
    PictureBackward(d, p, picture_coding_type,
                    IF picture_coding_type \in {2, 3}
                    THEN BrRead(d, BrRead(d, br, 1), 3) ELSE br)

\* PictureHeader.__init__: eight bytes, one byte back, then the bit reader
PictureHeader(d, p) ==
    LET data == HReadInto(d, p, 8)
        p1 == HAdvance(d, p, 8)
        picture_coding_type == Shr(BitAnd(At(data, 5), 56), 3)
        br == [err |-> "none", p |-> p1 - 1, position |-> 0,
               current_byte |-> 0, value |-> {}, bits |-> 0]
    IN  IF Slice(data, 0, 4) # picture_start_code
        THEN [NoPicture EXCEPT !.start = p, !.err = "AssertionError", !.p = p1]
        ELSE PictureForward(d, p, picture_coding_type, BrRead(d, br, 5))

\* PictureCodingExtension.__init__
PictureCodingExtension(d, p) ==
    LET data == HReadInto(d, p, 9)
        p1 == HAdvance(d, p, 9)
        composite_display_flag == Shr(BitAnd(At(data, 8), 64), 6)
        p2 == IF composite_display_flag # 0 THEN HAdvance(d, p1 - 1, 3) ELSE p1
    IN  IF Slice(data, 0, 4) # extension_start_code
        THEN VideoFail("AssertionError", p2)
        ELSE next_start_code(d, p2, TRUE)

\* data.index(code): the lowest index of code in data, or -1 for ValueError
Index(data, code) ==
    LET hits == {k \in 0..(Len(data) - 4) :
                    /\ data[k + 1] = code[1] /\ data[k + 2] = code[2]
                    /\ data[k + 3] = code[3] /\ data[k + 4] = code[4]}
    IN  IF hits = {} THEN -1
        ELSE CHOOSE k \in hits : \A h \in hits : k <= h

ChunkSize == 4096

\* the nested try / except of the picture data scan: idx for one chunk
ScanIndex(data) ==
    IF Index(data, sequence_header_code) >= 0
    THEN Index(data, sequence_header_code)
    ELSE IF Index(data, group_start_code) >= 0
    THEN Index(data, group_start_code)
    ELSE IF Index(data, picture_start_code) >= 0
    THEN Index(data, picture_start_code)
    ELSE Index(data, sequence_end_code)

NoScan == [from |-> None, to |-> None, chunks |-> 0]

\* "finally: fh.seek(pos)" without the seek: the cursor stays at p
ConstructorLeaveSkipped(pos, p) == p

\* "finally: fh.seek(pos)": the cursor a constructor leaves that was called
\* at pos and has moved the cursor to p
ConstructorLeave(pos, p) == pos

\* the cursor DVDAC3Audio(pes, fh, is_first) leaves when called at pos
DVDAC3AudioCursor(d, pes, pos) ==
    IF ~(pes.stream_id = get_stream_id_by_name(Name("private_stream_1"))
         /\ pes.header_length = 17)
    THEN pos
    ELSE ConstructorLeave(pos,
            peek(d, HAdvance(d, pes.pos + pes.header_length, 4), 2).p)

\* the cursor PS2PCMAudio(pes, fh, is_first) leaves when called at pos
PS2PCMAudioCursor(d, pes, is_first, pos) ==
    ConstructorLeave(pos,
        HAdvance(d, pes.pos, IF is_first THEN full_header_length
                             ELSE sub_header_length))

\* the PES packets of the file that start with a stream id of a PES packet
PesOf(d) ==
    {PESPacket(d, q).pes :
        q \in {q \in 0..(Len(d) - 6) :
                  /\ d[q + 1] = 0 /\ d[q + 2] = 0 /\ d[q + 3] = 1
                  /\ d[q + 4] >= 188
                  /\ PESPacket(d, q).err = "none"}}

\* DVDAC3Audio(pes, fh, is_first) on the handle "file"
ConstructAC3(pes, is_first) ==
    /\ vd_pc = "idle"
    /\ vd_entry' = hpos["file"]
    /\ vd_err' = DVDAC3Audio(hdata["file"], pes, is_first).err
    /\ vd_pc' = IF DVDAC3Audio(hdata["file"], pes, is_first).err = "none"
                THEN "returned" ELSE "raised"
    /\ hpos' = [hpos EXCEPT
                   !["file"] = DVDAC3AudioCursor(hdata["file"], pes, hpos["file"])]
    /\ UNCHANGED <<vd_info_only, vd_i, vd_picture, vd_ext, vd_scan, shVars,
                   pvVars, hdata, bsVars, srVars, ixVars, siVars, rdVars>>

\* PS2PCMAudio(pes, fh, is_first) on the handle "file"
ConstructPCM(pes, is_first) ==
    /\ vd_pc = "idle"
    /\ vd_entry' = hpos["file"]
    /\ vd_err' = PS2PCMAudio(hdata["file"], pes, is_first).err
    /\ vd_pc' = IF PS2PCMAudio(hdata["file"], pes, is_first).err = "none"
                THEN "returned" ELSE "raised"
    /\ hpos' = [hpos EXCEPT
                   !["file"] = PS2PCMAudioCursor(hdata["file"], pes, is_first,
                                                 hpos["file"])]
    /\ UNCHANGED <<vd_info_only, vd_i, vd_picture, vd_ext, vd_scan, shVars,
                   pvVars, hdata, bsVars, srVars, ixVars, siVars, rdVars>>

\* what the walker leaves alone
walkerFrame == <<shVars, pvVars, hdata, bsVars, srVars, ixVars, siVars, rdVars>>

\* an exception e leaves MPEG2Video.__init__ through its finally clause
VideoRaise(e, p) ==
    /\ vd_pc' = "raised"
    /\ vd_err' = e
    /\ hpos' = [hpos EXCEPT !["file"] = ConstructorLeave(vd_entry, p)]

\* the walker goes on at cursor p with the next step
VideoGoOn(step, p) ==
    /\ vd_pc' = step
    /\ vd_err' = "none"
    /\ hpos' = [hpos EXCEPT !["file"] = p]

\* MPEG2Video.__init__, lines 1507-1512: tell, peek and the assertion
VideoOpen(info_only) ==
    /\ vd_pc = "idle"
    /\ vd_entry' = hpos["file"]
    /\ vd_info_only' = info_only
    /\ \E next_bits_ \in {peek(hdata["file"], hpos["file"], 4)} :
          IF next_bits_.err # "none"
          THEN /\ vd_pc' = "raised"
               /\ vd_err' = next_bits_.err
               /\ hpos' = [hpos EXCEPT
                              !["file"] = ConstructorLeave(hpos["file"], next_bits_.p)]
          ELSE IF next_bits_.data # sequence_header_code
          THEN /\ vd_pc' = "raised"
               /\ vd_err' = "AssertionError"
               /\ hpos' = [hpos EXCEPT
                              !["file"] = ConstructorLeave(hpos["file"], hpos["file"])]
          ELSE /\ vd_pc' = "sequence"
               /\ vd_err' = "none"
               /\ UNCHANGED hpos
    /\ UNCHANGED <<vd_i, vd_picture, vd_ext, vd_scan, walkerFrame>>

\* Sequence.__init__ up to "self.extension_and_user_data(fh, 0)"
SequenceStep ==
    /\ vd_pc = "sequence"
    /\ \E r \in {SequenceStart(hdata["file"], hpos["file"])} :
          IF r.err # "none" THEN VideoRaise(r.err, r.p) /\ UNCHANGED vd_i
          ELSE VideoGoOn("extension", r.p) /\ vd_i' = 0
    /\ UNCHANGED <<vd_entry, vd_info_only, vd_picture, vd_ext, vd_scan,
                   walkerFrame>>

\* the step after extension_and_user_data(fh, i) has returned
AfterExtensions(i) ==
    IF i = 0 THEN "pictures" ELSE IF i = 1 THEN "picture" ELSE "scan"

\* one turn of the loop "while found" of extension_and_user_data(fh, i); a
\* turn that finds an extension_start_code with i = 1 reads nothing and is
\* followed by the same turn for ever
ExtensionAndUserData ==
    /\ vd_pc = "extension"
    /\ \E next_bits_ \in {peek(hdata["file"], hpos["file"], 4)} :
          IF next_bits_.err # "none"
          THEN /\ VideoRaise(next_bits_.err, next_bits_.p)
               /\ UNCHANGED <<vd_ext, vd_scan>>
          ELSE IF next_bits_.data = extension_start_code /\ vd_i # 1
          THEN \E ed \in {ExtensionData(hdata["file"], hpos["file"], vd_i)} :
                  /\ vd_ext' = ed
                  /\ IF ed.err # "none" THEN VideoRaise(ed.err, ed.p)
                     ELSE VideoGoOn("extension", ed.p)
                  /\ UNCHANGED vd_scan
          ELSE IF next_bits_.data = extension_start_code
          THEN /\ vd_pc' = "hung"
               /\ UNCHANGED <<vd_err, hpos, vd_ext, vd_scan>>
          ELSE IF next_bits_.data = user_data_start_code
          THEN \E ud \in {UserData(hdata["file"], hpos["file"])} :
                  /\ IF ud.err # "none" THEN VideoRaise(ud.err, ud.p)
                     ELSE VideoGoOn("extension", ud.p)
                  /\ UNCHANGED <<vd_ext, vd_scan>>
          ELSE /\ VideoGoOn(AfterExtensions(vd_i), hpos["file"])
               /\ vd_scan' = IF vd_i = 2
                             THEN [from |-> hpos["file"], to |-> None, chunks |-> 0]
                             ELSE vd_scan
               /\ UNCHANGED vd_ext
    /\ UNCHANGED <<vd_entry, vd_info_only, vd_i, vd_picture, walkerFrame>>

\* the test of "while next_bits == picture_start_code or next_bits ==
\* group_start_code" on the last peek, and the GOP header of line 1396
PictureLoop ==
    /\ vd_pc = "pictures"
    /\ \E next_bits_ \in {peek(hdata["file"], hpos["file"], 4)} :
          IF next_bits_.err # "none"
          THEN VideoRaise(next_bits_.err, next_bits_.p) /\ UNCHANGED vd_i
          ELSE IF next_bits_.data = group_start_code
          THEN \E gop \in {GroupOfPictureHeader(hdata["file"], hpos["file"])} :
                  IF gop.err # "none"
                  THEN VideoRaise(gop.err, gop.p) /\ UNCHANGED vd_i
                  ELSE VideoGoOn("extension", gop.p) /\ vd_i' = 1
          ELSE IF next_bits_.data = picture_start_code
          THEN VideoGoOn("picture", hpos["file"]) /\ UNCHANGED vd_i
          ELSE VideoGoOn("after", hpos["file"]) /\ UNCHANGED vd_i
    /\ UNCHANGED <<vd_entry, vd_info_only, vd_picture, vd_ext, vd_scan,
                   walkerFrame>>

\* PictureHeader(self, fh) and PictureCodingExtension(self, fh)
Picture ==
    /\ vd_pc = "picture"
    /\ \E ph \in {PictureHeader(hdata["file"], hpos["file"])} :
          /\ vd_picture' = ph
          /\ IF ph.err # "none"
             THEN VideoRaise(ph.err, ph.p) /\ UNCHANGED vd_i
             ELSE \E pce \in {PictureCodingExtension(hdata["file"], ph.p)} :
                     IF pce.err # "none"
                     THEN VideoRaise(pce.err, pce.p) /\ UNCHANGED vd_i
                     ELSE VideoGoOn("extension", pce.p) /\ vd_i' = 2
    /\ UNCHANGED <<vd_entry, vd_info_only, vd_ext, vd_scan, walkerFrame>>

\* one turn of "while data := fh.read(4096)": a chunk without a start code
\* is followed by fh.seek(-3, os.SEEK_CUR); when that puts the cursor back
\* where the turn began, the same turn follows for ever
ScanChunk ==
    /\ vd_pc = "scan"
    /\ \E data \in {HRead(hdata["file"], hpos["file"], ChunkSize)} :
          IF data = <<>>
          THEN /\ VideoGoOn("pictures", hpos["file"])
               /\ UNCHANGED vd_scan
          ELSE IF ScanIndex(data) >= 0
          THEN /\ VideoGoOn("pictures", hpos["file"] + ScanIndex(data))
               /\ vd_scan' = [vd_scan EXCEPT
                                 !.to = hpos["file"] + ScanIndex(data),
                                 !.chunks = @ + 1]
          ELSE IF Len(data) = 3
          THEN /\ vd_pc' = "hung"
               /\ vd_scan' = [vd_scan EXCEPT !.chunks = @ + 1]
               /\ UNCHANGED <<vd_err, hpos>>
          ELSE /\ VideoGoOn("scan", hpos["file"] + Len(data) - 3)
               /\ vd_scan' = [vd_scan EXCEPT !.chunks = @ + 1]
    /\ UNCHANGED <<vd_entry, vd_info_only, vd_i, vd_picture, vd_ext, walkerFrame>>

\* MPEG2Video.__init__, lines 1514-1521, after Sequence(self, fh) returned
SequenceEnd ==
    /\ vd_pc = "after"
    /\ \E next_bits_ \in {peek(hdata["file"], hpos["file"], 4)} :
          IF next_bits_.err # "none"
          THEN VideoRaise(next_bits_.err, next_bits_.p)
          ELSE IF vd_info_only
          THEN /\ vd_pc' = "returned"
               /\ vd_err' = "none"
               /\ hpos' = [hpos EXCEPT
                              !["file"] = ConstructorLeave(vd_entry, hpos["file"])]
          ELSE IF next_bits_.data = sequence_header_code
          THEN VideoGoOn("sequence", hpos["file"])
          ELSE IF next_bits_.data # sequence_end_code
          THEN VideoRaise("AssertionError", hpos["file"])
          ELSE /\ vd_pc' = "returned"
               /\ vd_err' = "none"
               /\ hpos' = [hpos EXCEPT
                              !["file"] = ConstructorLeave(vd_entry, hpos["file"])]
    /\ UNCHANGED <<vd_entry, vd_info_only, vd_i, vd_picture, vd_ext, vd_scan,
                   walkerFrame>>

(***************************************************************************)
(* Input files: a pack header, then packs and PES packets, then the tail.  *)
(***************************************************************************)
\* the pack header of a 10.08 Mbit/s stream with SCR 0, no stuffing
PackValid == <<0, 0, 1, 186, 68, 0, 4, 0, 4, 1, 1, 137, 195, 248>>

\* (byte index, mask) of the six marker bits of a pack header
MarkerBits == <<<<4, 4>>, <<6, 4>>, <<8, 4>>, <<9, 1>>, <<12, 2>>, <<12, 1>>>>

\* PackValid with marker bit k (0..5) set to 0
PackMarker(k) ==
    [i \in 1..Len(PackValid) |->
        IF i = MarkerBits[k + 1][1] + 1
        THEN PackValid[i] - MarkerBits[k + 1][2] ELSE PackValid[i]]

PackStuffed == SubSeq(PackValid, 1, 13) \o <<249, 255>>
PackMpeg1 == [PackValid EXCEPT ![5] = 33]
SysHeader == <<0, 0, 1, 187, 0, 9, 128, 0, 1, 0, 32, 127>>
PackSys == PackValid \o SysHeader \o <<224, 224, 232>>
PackSysEx == PackValid \o SysHeader \o <<183, 192, 0, 182, 192, 0>>

PesVideo0 == <<0, 0, 1, 224, 0, 5, 128, 0, 0, 17, 18>>
PesVideo1 == <<0, 0, 1, 224, 0, 6, 128, 0, 2, 255, 255, 19>>
PesVideoPts == <<0, 0, 1, 224, 0, 8, 128, 128, 5, 33, 0, 1, 0, 1>>
PesAudio == <<0, 0, 1, 192, 0, 4, 128, 0, 0, 33>>
PesPadding == <<0, 0, 1, 190, 0, 2, 255, 255>>
PesEcm == <<0, 0, 1, 240, 0, 1, 65>>
\* pes_packet_length 2 is shorter than the three flag bytes: the third flag
\* byte is the first byte of whatever follows
PesShort == <<0, 0, 1, 224, 0, 2, 128, 0>>
PesFlags01 == <<0, 0, 1, 224, 0, 4, 128, 64, 0, 49>>
PesPrivate1 == <<0, 0, 1, 189, 0, 4, 128, 0, 0, 128>>
PesPrivate2 == <<0, 0, 1, 191, 0, 1, 170>>
PesDsmcc == <<0, 0, 1, 242, 0, 4, 128, 0, 0, 81>>
PesBadFixed == <<0, 0, 1, 224, 0, 3, 64, 0, 0>>

Garbage == <<17, 34, 51, 68>>
\* a pack header in everything but the first byte of its start code
PackLike == [PackValid EXCEPT ![1] = 17]

\* packs and packets in any order and number
ItemsA == {PackValid, PesVideo0, PesVideo1, PesAudio, PesPadding, PesEcm,
           PesShort}
FilesA == {PackValid \o Flatten(body) \o tail :
              body \in SeqsUpTo(ItemsA, MaxItems),
              tail \in {program_end_code, <<>>}}

\* every kind of pack header, followed by at most one packet of every kind
HeadersB == {PackValid, PackStuffed, PackMpeg1, PackSys, PackSysEx}
               \cup {PackMarker(k) : k \in 0..5}
ItemsB == {<<>>, PesVideoPts, PesFlags01, PesPrivate1, PesPrivate2, PesDsmcc,
           PesBadFixed, Garbage, PackLike}
FilesB == {head \o item \o program_end_code : head \in HeadersB, item \in ItemsB}

\* a second pack whose header has a marker bit set to 0
FilesC == {PackValid \o PesVideo0 \o PackMarker(k) \o program_end_code : k \in 0..5}

\* the padding packet and the PTS-only packet of the end-to-end scenarios
PesPadding16 == <<0, 0, 1, 190, 0, 16>> \o [i \in 1..16 |-> 255]
FilesD == {PackValid \o PesPadding16 \o PesVideoPts \o program_end_code}

Files == FilesA \cup FilesB \cup FilesC \cup FilesD

\* ---- PES headers: sub-headers, marker bits and stuffing ----
\* a video packet with the flag byte flags, the given pes_header_data_length
\* and the bytes body after the three flag bytes, then one payload byte
PesHeader(flags, header_data_length, body) ==
    <<0, 0, 1, 224, 0, 4 + Len(body), 128, flags, header_data_length>>
        \o body \o <<85>>

\* the second flag byte and the bytes of every optional sub-header
SubHeaders ==
    {[flags |-> 0, body |-> <<>>],
     [flags |-> 128, body |-> <<33, 0, 1, 0, 1>>],
     [flags |-> 192, body |-> <<49, 0, 1, 0, 1, 17, 0, 1, 0, 1>>],
     [flags |-> 32, body |-> <<4, 0, 4, 0, 4, 1>>],
     [flags |-> 16, body |-> <<128, 0, 1>>],
     [flags |-> 8, body |-> <<0>>],
     [flags |-> 4, body |-> <<129>>],
     [flags |-> 2, body |-> <<18, 52>>],
     [flags |-> 1, body |-> <<30, 96, 1>>],
     [flags |-> 160, body |-> <<33, 0, 1, 0, 1, 4, 0, 4, 0, 4, 1>>]}

\* (flag byte, index of the byte, mask) of every marker bit of the PTS, the
\* PTS and DTS, the ESCR, the ES rate and the additional copy info blocks
SubHeaderMarkers ==
    {<<128, 1, 1>>, <<128, 3, 1>>, <<128, 5, 1>>,
     <<192, 1, 1>>, <<192, 3, 1>>, <<192, 5, 1>>,
     <<192, 6, 1>>, <<192, 8, 1>>, <<192, 10, 1>>,
     <<32, 1, 4>>, <<32, 3, 4>>, <<32, 5, 4>>, <<32, 5, 1>>, <<32, 6, 1>>,
     <<16, 1, 128>>, <<16, 3, 1>>,
     <<4, 1, 128>>}

SubHeaderBody(flags) == (CHOOSE h \in SubHeaders : h.flags = flags).body

\* the body of a sub-header with one marker bit set to 0
ClearedMarker(m) ==
    [SubHeaderBody(m[1]) EXCEPT ![m[2]] = @ - m[3]]

Stuffings == {<<>>, <<255>>, <<255, 255>>, <<255, 0>>, <<0>>, <<254, 255>>}

\* every sub-header followed by stuffing, declared with its true length, as
\* one byte shorter, or as one byte longer
PesStuffed ==
    {PesHeader(h.flags, Len(h.body) + Len(st) + delta, h.body \o st) :
        h \in SubHeaders, st \in Stuffings, delta \in {-1, 0, 1}}
      \ {PesHeader(h.flags, -1, h.body) : h \in SubHeaders}

PesCleared ==
    {PesHeader(m[1], Len(ClearedMarker(m)), ClearedMarker(m)) :
        m \in SubHeaderMarkers}

\* the file ends inside the PTS block, and pes_header_data_length says so
PesCutPts == <<0, 0, 1, 224, 0, 6, 128, 128, 3, 33, 0, 1>>

FilesHeaders ==
    {PackValid \o pes \o program_end_code : pes \in PesStuffed \cup PesCleared}
      \cup {PackValid \o PesCutPts}
\* ---- video elementary streams ----
\* 720 x 480, marker bit set, no quantiser matrix
VSeqHeader == <<0, 0, 1, 179, 45, 1, 224, 35, 255, 255, 224, 0>>
VSeqExtension == <<0, 0, 1, 181, 20, 138, 0, 1, 0, 0>>
VGop == <<0, 0, 1, 184, 0, 8, 0, 64>>
VUserData == <<0, 0, 1, 178, 65, 66>>
VPictureCoding == <<0, 0, 1, 181, 143, 255, 243, 128, 128>>
\* composite_display_flag set: two more bytes of composite display data
VPictureCodingComposite == <<0, 0, 1, 181, 143, 255, 243, 128, 192, 0, 0>>
VSlice == <<0, 0, 1, 1, 34, 51>>

\* a picture header of the coding type; tail holds the last three bits of
\* its eighth byte and the bytes after it
VPicture(picture_coding_type, tail) ==
    <<0, 0, 1, 0, 0, 8 * picture_coding_type, 0>> \o tail

\* coding types I, P, B and D with no entry, one entry and two entries of
\* extra information; the entries end with a flag 0 and zero bits
VPictures ==
    {VPicture(1, <<0>>), VPicture(1, <<5, 128>>), VPicture(1, <<5, 130, 2>>),
     VPicture(2, <<3, 128>>), VPicture(2, <<3, 193, 64>>),
     VPicture(3, <<3, 184>>), VPicture(3, <<3, 189, 128>>),
     VPicture(4, <<0>>)}

\* an extension_start_code, the byte with the identifier in its high nibble
\* and the bytes after it
VExtension(id_byte, body) == <<0, 0, 1, 181, id_byte>> \o body

\* sequence display (0010) and sequence scalable (0101) extensions, one with
\* spatial and one with temporal scalability, and the byte 0x02
VExtensions0 ==
    {VExtension(32, <<0, 0, 0>>), VExtension(35, <<1, 1, 1, 2, 194, 30, 0>>),
     VExtension(80, <<0>>), VExtension(84, <<0, 0, 0, 0, 0, 0>>),
     VExtension(92, <<0>>), VExtension(2, <<0, 0>>)}

\* quant matrix (0011), copyright (0100), picture display (0111), picture
\* spatial scalable (1001) and picture temporal scalable (1010) extensions,
\* and the bytes 0x03, 0x04, 0x07 and 0x09
VExtensions2 ==
    {VExtension(48, <<>>), VExtension(64, <<0, 4, 0, 0, 32, 0, 0, 64, 0, 0>>),
     VExtension(112, <<0, 0, 0>>), VExtension(144, <<0, 0, 0, 0, 0, 0>>),
     VExtension(160, <<0, 0, 0>>), VExtension(3, <<>>),
     VExtension(4, <<0, 4, 0, 0, 32, 0, 0, 64, 0, 0>>),
     VExtension(4, <<0, 0, 0, 0, 32, 0, 0, 64, 0, 0>>),
     VExtension(7, <<0, 0, 0>>), VExtension(9, <<0, 0, 0, 0, 0, 0>>)}

VHead == VSeqHeader \o VSeqExtension
VFrame == VPicture(1, <<0>>) \o VPictureCoding \o VSlice

\* n bytes that hold no start code
VFill(n) == [k \in 1..n |-> 170]

\* one picture of every kind
FilesVideoA ==
    {VHead \o picture \o VPictureCoding \o VSlice \o sequence_end_code :
        picture \in VPictures}

\* extensions and user data after the sequence extension
FilesVideoB ==
    {VHead \o e \o VFrame \o sequence_end_code :
        e \in VExtensions0 \cup {VUserData, VUserData \o VUserData}}

\* extensions and user data after the picture coding extension
FilesVideoC ==
    {VHead \o VPicture(1, <<0>>) \o coding \o e \o VSlice \o sequence_end_code :
        coding \in {VPictureCoding, VPictureCodingComposite},
        e \in VExtensions2 \cup {VUserData}}

\* a group of pictures header, alone or followed by user data or by an
\* extension
FilesVideoD ==
    {VHead \o VGop \o e \o VFrame \o tail :
        e \in {<<>>, VUserData, VExtension(32, <<0, 0, 0>>)},
        tail \in {sequence_end_code, VHead \o VFrame \o sequence_end_code}}

\* what follows the first picture: pictures, groups, sequences and the end
\* code in several orders, nothing, or bytes that hold no start code
FilesVideoE ==
    {VHead \o VFrame \o rest :
        rest \in {VFrame \o sequence_end_code,
                  VFrame \o VHead \o VFrame \o sequence_end_code,
                  VFrame \o VGop \o VFrame \o sequence_end_code,
                  VGop \o VFrame \o VHead \o VFrame \o sequence_end_code,
                  sequence_end_code \o VFrame \o VHead,
                  <<>>, VFill(1), VFill(5), <<0, 0, 1>>,
                  <<0, 0, 1, 185>>, VGop, VHead}}

\* a start code that straddles the end of the first chunk of 4096 bytes of
\* the scan, or lies right before or right after it
FilesVideoF ==
    {VHead \o VPicture(1, <<0>>) \o VPictureCoding \o VSlice
           \o VFill(ChunkSize - Len(VSlice) - back) \o code :
        back \in {0, 1, 3, 4},
        code \in {sequence_end_code, VFrame \o sequence_end_code}}

\* streams that are cut short or do not start with a sequence header
FilesVideoG ==
    {<<>>, <<0, 0, 1>>, VSeqHeader, VHead, VFrame,
     [VSeqHeader EXCEPT ![11] = 192] \o VSeqExtension,
     VSeqHeader \o VFrame, VSeqHeader \o <<7>> \o VSeqExtension,
     VHead \o VPicture(1, <<0>>), VHead \o VPicture(1, <<5>>),
     VHead \o VPicture(1, <<0>>) \o VSlice,
     VHead \o VGop \o VSlice}

FilesVideo ==
    FilesVideoA \cup FilesVideoB \cup FilesVideoC \cup FilesVideoD
        \cup FilesVideoE \cup FilesVideoF \cup FilesVideoG

\* bytes in front of the video stream: the handle is not at 0 on entry
VideoLeads == {<<>>, <<7, 7, 7>>}


(***************************************************************************)
(* Initial states and specifications                                       *)
(***************************************************************************)
BsIdle ==
    /\ bs_keep = FALSE /\ bs_position = 0 /\ bs_current_byte = 0
    /\ bs_data = <<>> /\ bs_value = {} /\ bs_err = "none"
    /\ bs_last = -1 /\ bs_consumed = 0 /\ bs_legal = TRUE

NoOp == [op |-> "none", arg |-> 0, whence |-> None, before |-> 0, prev |-> NoCall]

SrIdle ==
    /\ sr_segs = <<>> /\ sr_total = 0 /\ sr_position = 0 /\ sr_offset = 0
    /\ sr_ret = None /\ sr_err = "none" /\ sr_ops = NoOp

IxIdle ==
    /\ pc = "idle" /\ err = "none" /\ next_bits = <<>> /\ psh = NoPack
    /\ pack_list = <<>> /\ pes_types = <<>> /\ cur_pes = NoAttempt
    /\ ix_read = {}

SiIdle == si_arg = NoArg /\ si_out = <<>> /\ si_err = "none"

RdIdle == rd_arg = NoArg /\ rd_out = <<>> /\ rd_eof = FALSE

ShIdle == sh_readers = <<>> /\ sh_last = NoRead

PvIdle ==
    /\ pv_kind = "none" /\ pv_err = "none" /\ pv_audio = <<>>
    /\ pv_out = <<>> /\ pv_eof = FALSE
    /\ pv_pcm = NoPCM /\ pv_last = NoPCMRead

VdIdle ==
    /\ vd_pc = "idle" /\ vd_err = "none" /\ vd_entry = None
    /\ vd_info_only = FALSE /\ vd_i = 0
    /\ vd_picture = NoPicture /\ vd_ext = NoExtension /\ vd_scan = NoScan

OtherIdle == ShIdle /\ PvIdle /\ VdIdle

\* ---- the bit reader over every byte string of BsLen bytes ----
InitBits ==
    \E keep \in BOOLEAN :
       /\ \E bytes \in [1..BsLen -> BsByteVals] :
             hdata = [h \in Handles |-> IF h = "file" THEN bytes ELSE <<>>]
       /\ hpos = [h \in Handles |-> 0]
       /\ bs_keep = keep /\ bs_position = 0 /\ bs_current_byte = 0
       /\ bs_data = <<>> /\ bs_value = {} /\ bs_err = "none"
       /\ bs_last = -1 /\ bs_consumed = 0 /\ bs_legal = TRUE
       /\ SrIdle /\ IxIdle /\ SiIdle /\ RdIdle /\ OtherIdle

NextBits == \E size \in BsSizes : BsRead(size)

SpecBits == InitBits /\ [][NextBits]_vars

\* ---- the segmented reader over every well formed segment list ----
\* the bytes behind a handle: all different, and different between handles
HandleBytes(h) ==
    [i \in 1..(MaxSegs + MaxSegLen) |-> (IF h = "file" THEN 10 ELSE 20) + i]

\* the segment list with the given sizes: virtual_start runs on from 0, the
\* k-th segment lies at address k - 1 of its handle
RECURSIVE VirtualStart(_, _)
VirtualStart(sizes, k) ==
    IF k <= 1 THEN 0 ELSE VirtualStart(sizes, k - 1) + sizes[k - 1]

MakeSegments(sizes, fhs) ==
    [k \in 1..Len(sizes) |->
        SegmentInfo(fhs[k], k - 1, VirtualStart(sizes, k), sizes[k])]

InitReader ==
    /\ hdata = [h \in Handles |-> HandleBytes(h)]
    /\ hpos = [h \in Handles |-> 0]
    /\ \E n \in 1..MaxSegs :
       \E sizes \in [1..n -> 0..MaxSegLen] :
          LET fhs == [k \in 1..n |-> IF k % 2 = 1 THEN "file" ELSE "mem"]
          IN  /\ TotalSize(MakeSegments(sizes, fhs)) <= MaxTotal
              /\ sr_segs = MakeSegments(sizes, fhs)
              /\ sr_total = TotalSize(MakeSegments(sizes, fhs))
    /\ sr_position = 0 /\ sr_offset = 0
    /\ sr_ret = None /\ sr_err = "none" /\ sr_ops = NoOp
    /\ BsIdle /\ IxIdle /\ SiIdle /\ RdIdle /\ OtherIdle

\* the callers never move the reader further than MaxUnder below 0
NextReader ==
    \/ \E offset \in -1..(sr_total + 1) : Seek(offset, SEEK_SET)
    \/ \E offset \in -2..2 :
          /\ Tell + offset >= -MaxUnder
          /\ Seek(offset, SEEK_CUR)
    \/ \E offset \in -2..2 : Seek(offset, SEEK_END)
    \/ Seek(0, 3)
    \/ \E size \in -1..(sr_total + 1) : Read(size)

SpecReader == InitReader /\ [][NextReader]_vars

\* ---- the segmented reader over handles that end early ----
\* the handles hold only their first bytes, so that segments of a well
\* formed list reach past the end of their handle
InitTruncated ==
    /\ \E len \in 0..MaxSegLen :
          hdata = [h \in Handles |-> SubSeq(HandleBytes(h), 1, len)]
    /\ hpos = [h \in Handles |-> 0]
    /\ \E n \in 1..MaxSegs :
       \E sizes \in [1..n -> 0..MaxSegLen] :
          LET fhs == [k \in 1..n |-> IF k % 2 = 1 THEN "file" ELSE "mem"]
          IN  /\ TotalSize(MakeSegments(sizes, fhs)) <= MaxTotal
              /\ sr_segs = MakeSegments(sizes, fhs)
              /\ sr_total = TotalSize(MakeSegments(sizes, fhs))
    /\ sr_position = 0 /\ sr_offset = 0
    /\ sr_ret = None /\ sr_err = "none" /\ sr_ops = NoOp
    /\ BsIdle /\ IxIdle /\ SiIdle /\ RdIdle /\ OtherIdle

NextTruncated ==
    \/ \E offset \in 0..sr_total : Seek(offset, SEEK_SET)
    \/ \E size \in -1..(sr_total + 1) : Read(size)

SpecTruncated == InitTruncated /\ [][NextTruncated]_vars

\* ---- index construction, stream_iter and StreamIdReader over Files ----
InitIndex ==
    /\ \E f \in Files :
          hdata = [h \in Handles |-> IF h = "file" THEN f ELSE <<>>]
    /\ hpos = [h \in Handles |-> 0]
    /\ pc = "pack" /\ err = "none" /\ next_bits = <<>> /\ psh = NoPack
    /\ pack_list = <<>> /\ pes_types = <<>> /\ cur_pes = NoAttempt
    /\ ix_read = {}
    /\ BsIdle /\ SrIdle /\ SiIdle /\ RdIdle /\ OtherIdle

NextIndex ==
    \/ PackStart
    \/ PesStep
    \/ PackEnd
    \/ \E arg \in IxArgs : StreamIter(arg)
    \/ \E arg \in IxArgs : OpenReader(arg)
    \/ ReaderRead

SpecIndex == InitIndex /\ [][NextIndex]_vars

\* ---- index construction and the private stream readers ----
\* a private_stream_1 packet with a header of 17 bytes: PTS and three
\* stuffing bytes
PesHeader17(payload) ==
    <<0, 0, 1, 189, 0, 11 + Len(payload), 129, 128, 8, 33, 0, 1, 0, 1,
      255, 255, 255>> \o payload

Ac3First == PesHeader17(<<128, 1, 0, 1, 11, 119, 170>>)
Ac3Next == PesHeader17(<<128, 1, 0, 0, 187, 204>>)
Ac3Other == PesHeader17(<<129, 1, 0, 1, 11, 119, 221>>)
Ac3Short == PesHeader17(<<128>>)
Ac3BadSync == PesHeader17(<<128, 1, 0, 1, 12, 119, 238>>)

ItemsAc3 == {Ac3First, Ac3Next, Ac3Other, Ac3Short, Ac3BadSync, PesPrivate1,
             PesPadding}
FilesAc3 == {PackValid \o Flatten(body) \o program_end_code :
                body \in SeqsUpTo(ItemsAc3, MaxItems)}

\* a private_stream_1 packet of PS2 audio: a PES header of 20 bytes (PTS and
\* six stuffing bytes), stream_audio_type 0xA0 and the stream number
PcmPesHeader(block_size) ==
    <<0, 0, 1, 189, block_size \div 256, block_size % 256,
      129, 128, 11, 33, 0, 1, 0, 1, 255, 255, 255, 255, 255, 255,
      160, 0, 0>>

\* the first packet: "SShd", its length, audio_type 1, 48000 Hz,
\* num_channels, interleave_size 0x200, the loop addresses, "SSbd" and
\* total_audio_data_size, then the audio bytes
PcmFirst(num_channels, total_audio_data_size, audio) ==
    PcmPesHeader(57 + Len(audio))
        \o <<83, 83, 104, 100>> \o <<0, 0, 0, 24>>
        \o UInt32Bytes(1) \o UInt32Bytes(48000)
        \o UInt32Bytes(num_channels) \o UInt32Bytes(pcm_interleave_size)
        \o UInt32Bytes(0) \o UInt32Bytes(0)
        \o <<83, 83, 98, 100>> \o UInt32Bytes(total_audio_data_size)
        \o audio

PcmNext(audio) == PcmPesHeader(17 + Len(audio)) \o audio

\* a later packet that ends after stream_audio_type: block_size 15
PcmTiny == SubSeq(PcmPesHeader(15), 1, 21)

\* n audio bytes; bytes that are 2, 512 or 1024 apart differ
AudioBytes(n, first) == [i \in 1..n |-> (3 * (first + i)) % 251]

FilesPcm ==
    {PackValid \o Flatten(body) \o program_end_code : body \in {
        <<PcmFirst(1, 512, AudioBytes(512, 0))>>,
        <<PcmFirst(1, 512, AudioBytes(509, 0))>>,
        <<PcmFirst(1, 0, AudioBytes(1, 0))>>,
        <<PcmFirst(1, 512, <<>>)>>,
        <<PcmFirst(1, 0, <<>>)>>,
        <<PcmFirst(0, 0, <<>>)>>,
        <<PcmFirst(1, 512, AudioBytes(514, 0)), PcmTiny, PesPadding>>,
        <<PcmFirst(2, 1024, AudioBytes(1024, 0))>>,
        <<PcmFirst(2, 1024, AudioBytes(1020, 0))>>,
        <<PcmFirst(2, 1024, AudioBytes(600, 0)), PesPadding,
          PcmNext(AudioBytes(424, 600))>>,
        <<PcmFirst(2, 2048, AudioBytes(1024, 0)),
          PcmNext(AudioBytes(1024, 1024))>>,
        <<PcmFirst(3, 1536, AudioBytes(1536, 0))>>,
        <<PcmFirst(2, 1024, AudioBytes(2, 0)), Ac3First>>}}

\* the offsets and sizes of the calls on a _PS2PCMStream: around the end of
\* the header, the end of the first block and the end of the stream
PCMOffsets == {0, 40, 44, 1058, 1068, 2092}
PCMSizes == {-1, 0, 43, 1030}

InitPrivate ==
    /\ \E f \in FilesAc3 \cup FilesPcm :
          hdata = [h \in Handles |-> IF h = "file" THEN f ELSE <<>>]
    /\ hpos = [h \in Handles |-> 0]
    /\ pc = "pack" /\ err = "none" /\ next_bits = <<>> /\ psh = NoPack
    /\ pack_list = <<>> /\ pes_types = <<>> /\ cur_pes = NoAttempt
    /\ ix_read = {}
    /\ BsIdle /\ SrIdle /\ SiIdle /\ RdIdle /\ OtherIdle

NextPrivate ==
    \/ PackStart
    \/ PesStep
    \/ PackEnd
    \/ OpenAC3
    \/ AC3Read
    \/ OpenPCM
    \/ \E offset \in PCMOffsets : PCMSeek(offset)
    \/ \E size \in PCMSizes : PCMRead(size)

SpecPrivate == InitPrivate /\ [][NextPrivate]_vars

\* ---- StreamReaders that share the handle "file" ----
\* the segments of reader r lie back to back from address r - 1 of the file,
\* the last one first: segments of different readers overlap
SharedSegments(r, sizes) ==
    [k \in 1..Len(sizes) |->
        SegmentInfo("file",
                    r - 1 + SeqSum(sizes) - VirtualStart(sizes, k) - sizes[k],
                    VirtualStart(sizes, k), sizes[k])]

InitShared ==
    /\ hdata = [h \in Handles |-> HandleBytes(h)]
    /\ hpos = [h \in Handles |-> 0]
    /\ \E n \in 1..MaxSegs :
       \E sizes \in [1..n -> 1..MaxSegLen] :
          /\ SeqSum(sizes) <= MaxTotal
          /\ sh_readers = [r \in Readers |->
                [segs |-> SharedSegments(r, sizes), total |-> SeqSum(sizes),
                 position |-> 0, offset |-> 0]]
    /\ sh_last = NoRead
    /\ BsIdle /\ SrIdle /\ IxIdle /\ SiIdle /\ RdIdle /\ PvIdle /\ VdIdle

NextShared ==
    \/ \E r \in Readers : \E offset \in -1..(sh_readers[r].total + 1) :
          ShSeek(r, offset)
    \/ \E r \in Readers : \E size \in -1..(sh_readers[r].total + 1) :
          ShRead(r, size)

SpecShared == InitShared /\ [][NextShared]_vars

\* ---- index construction over the PES headers ----
InitHeaders ==
    /\ \E f \in FilesHeaders :
          hdata = [h \in Handles |-> IF h = "file" THEN f ELSE <<>>]
    /\ hpos = [h \in Handles |-> 0]
    /\ pc = "pack" /\ err = "none" /\ next_bits = <<>> /\ psh = NoPack
    /\ pack_list = <<>> /\ pes_types = <<>> /\ cur_pes = NoAttempt
    /\ ix_read = {}
    /\ BsIdle /\ SrIdle /\ SiIdle /\ RdIdle /\ OtherIdle

NextHeaders ==
    \/ PackStart
    \/ PesStep
    \/ PackEnd

SpecHeaders == InitHeaders /\ [][NextHeaders]_vars

\* program stream files with private packets, for the two audio constructors
FilesAudio ==
    {PackValid \o Flatten(body) \o program_end_code :
        body \in {<<Ac3First, Ac3Next>>, <<Ac3Other, Ac3Short>>,
                  <<Ac3BadSync, PesPrivate1>>, <<PesVideo0, Ac3First>>}}
    \cup {PackValid \o Ac3First}
    \cup {PackValid \o Flatten(body) \o program_end_code :
        body \in {<<PcmFirst(1, 512, AudioBytes(2, 0)), PcmNext(AudioBytes(2, 2))>>,
                  <<PcmFirst(0, 0, <<>>), PcmTiny>>}}
    \cup {PackValid \o PcmTiny}

\* ---- the constructors that put the cursor of their handle back ----
InitVideo ==
    /\ \/ \E lead \in VideoLeads, f \in FilesVideo :
             /\ hdata = [h \in Handles |-> IF h = "file" THEN lead \o f ELSE <<>>]
             /\ hpos = [h \in Handles |-> IF h = "file" THEN Len(lead) ELSE 0]
       \/ \E f \in FilesAudio, p \in {0, 15, 40} :
             /\ hdata = [h \in Handles |-> IF h = "file" THEN f ELSE <<>>]
             /\ hpos = [h \in Handles |-> IF h = "file" THEN Min(p, Len(f)) ELSE 0]
    /\ BsIdle /\ SrIdle /\ IxIdle /\ SiIdle /\ RdIdle /\ OtherIdle

NextVideo ==
    \/ \E info_only \in BOOLEAN : VideoOpen(info_only)
    \/ SequenceStep
    \/ ExtensionAndUserData
    \/ PictureLoop
    \/ Picture
    \/ ScanChunk
    \/ SequenceEnd
    \/ \E pes \in PesOf(hdata["file"]), is_first \in BOOLEAN :
          ConstructAC3(pes, is_first)
    \/ \E pes \in PesOf(hdata["file"]), is_first \in BOOLEAN :
          ConstructPCM(pes, is_first)

SpecVideo == InitVideo /\ [][NextVideo]_vars

Spec == SpecIndex

(***************************************************************************)
(* Properties of the bit reader (under SpecBits)                           *)
(***************************************************************************)
\* bit k of the byte string d, bit 0 being the most significant bit of d[0]
BitAt(d, k) == (d[k \div 8 + 1] \div Pow2(7 - (k % 8))) % 2

\* the integer whose binary digits are the n bits of d from bit start on,
\* most significant first, as the set of its 1 bits
ChunkBits(d, start, n) == {i \in 0..(n - 1) : BitAt(d, start + n - 1 - i) = 1}

\* C4: after reads of widths k1..ki, each in 1..32 and together no more than
\* the bits of the byte string, the last read returned the integer made of
\* the next ki bits taken MSB-first, the bit cursor is (k1+...+ki) mod 8, and
\* in keep mode get_data() is exactly the bytes fetched so far, in order.
C4_ReadsNextBitsMsbFirst ==
    (bs_last # -1 /\ bs_legal /\ bs_consumed <= 8 * Len(hdata["file"])) =>
        /\ bs_err = "none"
        /\ bs_value = ChunkBits(hdata["file"], bs_consumed - bs_last, bs_last)
        /\ bs_position = bs_consumed % 8
        /\ hpos["file"] = (bs_consumed + 7) \div 8
        /\ bs_keep => bs_data = Slice(hdata["file"], 0, hpos["file"])

\* a 32 bit read that starts inside a byte and ends inside another, keep mode
C4_Witness ==
    /\ bs_keep /\ bs_legal /\ bs_err = "none"
    /\ bs_last = 32 /\ bs_consumed = 35
    /\ bs_value # {} /\ Len(bs_data) = 5

(***************************************************************************)
(* Properties of the segmented reader (under SpecReader)                   *)
(***************************************************************************)
\* seek(0) followed by read(total_size), from the state the reader is in
SeekZero == SeekOp(sr_segs, sr_total, sr_position, sr_offset, 0, SEEK_SET)
FullRead ==
    ReadOp(sr_segs, sr_total, hdata, hpos, SeekZero.position, SeekZero.offset,
           sr_total)

\* C1: for 0 <= a <= b <= T, seek(a) followed by read(b - a) returns the
\* bytes of seek(0) followed by read(T), sliced [a:b]; zero-length segments
\* and a = T included.
C1_SeekReadIsSliceOfFullRead ==
    (/\ sr_ops.op = "read"
     /\ sr_ops.prev.op = "seek"
     /\ sr_ops.prev.arg \in 0..sr_total
     /\ sr_ops.arg \in 0..(sr_total - sr_ops.prev.arg)) =>
        /\ sr_err = "none"
        /\ FullRead.err = "none"
        /\ Len(FullRead.data) = sr_total
        /\ sr_ret = Slice(FullRead.data, sr_ops.prev.arg,
                          sr_ops.prev.arg + sr_ops.arg)

\* a read of two bytes after seek(1) that crosses a zero-length segment
C1_Witness ==
    /\ sr_ops.op = "read" /\ sr_ops.prev.op = "seek"
    /\ sr_ops.prev.arg = 1 /\ sr_ops.arg = 2 /\ Len(sr_ret) = 2
    /\ \E i \in 2..(Len(sr_segs) - 1) :
          /\ sr_segs[i].data_size = 0
          /\ sr_segs[i].virtual_start = 2

\* C10: tell() stays within [0, T]; seek(offset, start) clamps offset to
\* [0, T]; seek(offset, current) adds offset to the current position and
\* clamps the sum to [0, T]; seek(offset, end) gives max(0, T + min(offset, 0));
\* seek returns the following tell(), and the segment index stays within the
\* segment list.
C10_TellStaysWithinTotal ==
    sr_segs # <<>> =>
        /\ Tell \in 0..sr_total
        /\ sr_position \in 0..Len(sr_segs)
        /\ (sr_ops.op = "seek" /\ sr_err = "none") =>
              /\ sr_ret = Tell
              /\ sr_ops.whence = SEEK_SET =>
                    sr_ret = Min(Max(0, sr_ops.arg), sr_total)
              /\ sr_ops.whence = SEEK_CUR =>
                    sr_ret = Min(Max(0, sr_ops.before + sr_ops.arg), sr_total)
              /\ sr_ops.whence = SEEK_END =>
                    sr_ret = Max(0, sr_total + Min(sr_ops.arg, 0))

(***************************************************************************)
(* Properties of the index, stream_iter and StreamIdReader (SpecIndex)     *)
(***************************************************************************)
\* the PES packets of the index, as a set
IndexPes ==
    UNION {{pack_list[i].pes_list[j] : j \in 1..Len(pack_list[i].pes_list)} :
              i \in 1..Len(pack_list)}

PresentIds == {pes.stream_id : pes \in IndexPes}

\* the packets of S by increasing file offset
RECURSIVE SortedByPos(_)
SortedByPos(S) ==
    IF S = {} THEN <<>>
    ELSE LET first == CHOOSE p \in S : \A q \in S : p.pos <= q.pos
         IN  <<first>> \o SortedByPos(S \ {first})

\* the stream id a name stands for: 0xE0 + n for "video stream number n",
\* 0xC0 + n for "audio stream number n", else the id of the table
NamedId(name) ==
    IF name.text = "video stream number " /\ name.num \in 0..15
    THEN 224 + name.num
    ELSE IF name.text = "audio stream number " /\ name.num \in 0..31
    THEN 192 + name.num
    ELSE IF name.num = None /\ \E id \in DOMAIN stream_ids : stream_ids[id] = name.text
    THEN CHOOSE id \in DOMAIN stream_ids : stream_ids[id] = name.text
    ELSE None

TargetId(arg) == IF arg.kind = "str" THEN NamedId(arg.name) ELSE arg.id

\* the file bytes [pos + header_length, pos + header_length + payload length)
PayloadBytes(pes) ==
    Slice(hdata["file"], pes.pos + pes.header_length,
          pes.pos + pes.header_length + pes.pes_packet_data_bytes_n)

ExpectedStream(id) ==
    LET packets == SortedByPos({pes \in IndexPes : pes.stream_id = id})
    IN  Flatten([i \in 1..Len(packets) |-> PayloadBytes(packets[i])])

\* C2: reading a StreamIdReader of a stream of the index from start to end
\* yields the payload bytes of every PES packet of that stream, in file
\* order, and nothing else.
C2_ReaderYieldsPayloads ==
    rd_arg # NoArg =>
        /\ sr_err = "none"
        /\ Len(rd_out) <= Len(ExpectedStream(TargetId(rd_arg)))
        /\ rd_out = Slice(ExpectedStream(TargetId(rd_arg)), 0, Len(rd_out))
        /\ rd_eof => rd_out = ExpectedStream(TargetId(rd_arg))

\* C3: for every PES packet of the index, pos + 6 + pes_packet_length is the
\* offset of the next PES packet, of the next pack start code or of the
\* program end code.
C3_PacketEndsWhereNextStarts ==
    pc = "done" =>
        \A i \in 1..Len(pack_list) :
        \A j \in 1..Len(pack_list[i].pes_list) :
           LET pes_list == pack_list[i].pes_list
               next == pes_list[j].pos + 6 + pes_list[j].pes_packet_length
               code == Slice(hdata["file"], next, next + 4)
           IN  IF j < Len(pes_list)
               THEN next = pes_list[j + 1].pos /\ Slice(code, 0, 3) = start_code_prefix
               ELSE IF i < Len(pack_list)
               THEN next = pack_list[i + 1].pos /\ code = pack_start_code
               ELSE code = program_end_code

\* an index with a FlagData packet, a padding packet and an ECM packet
C3_Witness ==
    /\ pc = "done"
    /\ {224, 190, 240} \subseteq PresentIds
    /\ \E pes \in IndexPes : pes.flag_data # NoFlagData /\ pes.pes_packet_data_bytes_n > 0

\* the 14 bytes of the pack header the parser last worked on
CurrentHeader == Slice(hdata["file"], psh.pos, psh.pos + PackSize)

MarkerCleared(header, k) ==
    BitAnd(At(header, MarkerBits[k + 1][1]), MarkerBits[k + 1][2]) = 0

\* a header with the start code, the fixed bits 01 and five of six markers
OneMarkerCleared(header) ==
    /\ Len(header) = PackSize
    /\ Slice(header, 0, 4) = pack_start_code
    /\ At(header, 4) \div 64 = 1
    /\ Cardinality({k \in 0..5 : MarkerCleared(header, k)}) = 1

\* C5: a pack header that is valid but for one marker bit set to 0 makes
\* parsing fail with InvalidMarkerException, and no index is produced.
C5_ClearedMarkerRejected ==
    (psh # NoPack /\ OneMarkerCleared(CurrentHeader)) =>
        pc = "failed" /\ err = "InvalidMarkerException"

\* the second pack of a file has its last marker bit cleared
C5_Witness ==
    /\ pc = "failed" /\ err = "InvalidMarkerException"
    /\ Len(pack_list) = 1 /\ psh.pos > 0
    /\ OneMarkerCleared(CurrentHeader) /\ MarkerCleared(CurrentHeader, 5)

\* C6: a PES packet whose FlagData has pts_dts_flags = 0b01 fails with
\* InvalidFixedBitsException.
C6_PtsDtsFlags01Rejected ==
    (/\ cur_pes.pes.flag_data # NoFlagData
     /\ b_10(cur_pes.pes.flag_data) = 2
     /\ pts_dts_flags(cur_pes.pes.flag_data) = 1) =>
        cur_pes.err = "InvalidFixedBitsException"

\* C7: stream_iter of a stream of the index, by id or by name, yields the
\* packets of that stream and no other, each once, by increasing file offset.
C7_IterYieldsStreamInFileOrder ==
    (si_arg # NoArg /\ TargetId(si_arg) \in PresentIds) =>
        /\ si_err = "none"
        /\ \A i \in 1..Len(si_out) : si_out[i].stream_id = TargetId(si_arg)
        /\ \A i \in 1..Len(si_out) : \A j \in 1..Len(si_out) :
              i < j => si_out[i].pos < si_out[j].pos
        /\ {si_out[i] : i \in 1..Len(si_out)}
              = {pes \in IndexPes : pes.stream_id = TargetId(si_arg)}
        /\ si_out = stream_iter(pack_list, pes_types, IntArg(TargetId(si_arg))).out

\* a name yields two packets of a file that holds another stream between them
C7_Witness ==
    /\ si_arg.kind = "str" /\ si_err = "none" /\ Len(si_out) = 2
    /\ \E pes \in IndexPes :
          /\ pes.stream_id # si_out[1].stream_id
          /\ si_out[1].pos < pes.pos /\ pes.pos < si_out[2].pos

\* C8: stream_iter raises ValueError "invalid stream_id" for a name of no
\* stream id and ValueError "stream_id not found" for an id, or the name of
\* an id, that no packet of the file has; it yields nothing in both cases.
C8_IterRejectsUnknownAndAbsent ==
    si_arg # NoArg =>
        /\ (si_arg.kind = "str" /\ NamedId(si_arg.name) = None) =>
              si_err = "ValueError: invalid stream_id" /\ si_out = <<>>
        /\ (TargetId(si_arg) # None /\ TargetId(si_arg) \notin PresentIds) =>
              si_err = "ValueError: stream_id not found" /\ si_out = <<>>

\* the name of a stream that the file, which holds packets, does not hold
C8_Witness ==
    /\ si_arg.kind = "str" /\ si_err = "ValueError: stream_id not found"
    /\ NamedId(si_arg.name) # None /\ IndexPes # {}

\* C9: after index construction pes_types has one entry per stream id of
\* the packs, each entry is the packet of lowest offset of its stream, and
\* streams() yields the entries in the order the streams first appear.
C9_CatalogHoldsFirstPacketPerStream ==
    pc = "done" =>
        /\ Keys(pes_types) = PresentIds
        /\ Len(pes_types) = Cardinality(PresentIds)
        /\ \A i \in 1..Len(pes_types) :
              /\ pes_types[i].pes \in IndexPes
              /\ pes_types[i].pes.stream_id = pes_types[i].stream_id
              /\ \A pes \in IndexPes :
                    pes.stream_id = pes_types[i].stream_id =>
                        pes_types[i].pes.pos <= pes.pos
        /\ Len(streams(pes_types)) = Len(pes_types)
        /\ \A i \in 1..Len(pes_types) :
              streams(pes_types)[i] = <<pes_types[i].stream_id, pes_types[i].pes>>
        /\ \A i \in 1..Len(pes_types) : \A j \in 1..Len(pes_types) :
              i < j => streams(pes_types)[i][2].pos < streams(pes_types)[j][2].pos

\* two streams, one of them with a second packet after the other stream's
C9_Witness ==
    /\ pc = "done" /\ Len(pes_types) = 2 /\ Cardinality(IndexPes) = 3
    /\ \E pes \in IndexPes :
          /\ pes.stream_id = pes_types[1].stream_id
          /\ pes.pos > pes_types[2].pes.pos

\* C14: BitStreamReader.read(n) fails with InvalidArgument when n = 0 or
\* n > 32, whatever the state of the reader (checked under SpecBits).
C14_IllegalSizeRejected ==
    (bs_last # -1 /\ bs_last \notin 1..32) => bs_err = "InvalidArgument"

\* the stream ids the specification calls opaque
OpaqueIds == {188, 190, 191, 240, 241, 242, 248, 255}

\* C12: a PES packet whose stream_id is opaque is indexed without a FlagData
\* header, the parser skipping exactly pes_packet_length bytes after the six
\* byte prefix; a packet of any other stream_id gets a FlagData parse.
C12_OpaqueIdsSkipFlagData ==
    cur_pes # NoAttempt =>
        IF cur_pes.pes.stream_id \in OpaqueIds
        THEN /\ cur_pes.err = "none"
             /\ cur_pes.pes.flag_data = NoFlagData
             /\ cur_pes.pes.header_length = 6
             /\ cur_pes.pes.pes_packet_data_bytes_n = cur_pes.pes.pes_packet_length
             /\ (pc = "pes" /\ psh.pes_list # <<>>
                 /\ psh.pes_list[Len(psh.pes_list)] = cur_pes.pes) =>
                    hpos["file"] = cur_pes.pes.pos + 6 + cur_pes.pes.pes_packet_length
        ELSE cur_pes.pes.flag_data # NoFlagData

\* the two length bytes of the packet at pos, big-endian
LengthField(pos) ==
    256 * At(hdata["file"], pos + 4) + At(hdata["file"], pos + 5)

WellFormed(segs) ==
    segs # <<>> =>
        /\ segs[1].virtual_start = 0
        /\ \A i \in 1..Len(segs) : segs[i].data_size >= 0
        /\ \A i \in 1..(Len(segs) - 1) :
              segs[i].virtual_start + segs[i].data_size = segs[i + 1].virtual_start

\* C11: every segment list built from a successfully parsed index is well
\* formed: the first segment has virtual_start 0, every segment has length
\* >= 0, and each segment ends where the next one starts.
C11_SegmentListsWellFormed ==
    pc = "done" => WellFormed(sr_segs)


\* the PES packets parsed so far: those of the index and those of the pack
\* under construction
ParsedPes == IndexPes \cup {psh.pes_list[j] : j \in 1..Len(psh.pes_list)}

\* the file offsets of the payload of a packet
PayloadOffsets(pes) ==
    {i \in 0..(Len(hdata["file"]) - 1) :
        /\ pes.pos + pes.header_length <= i
        /\ i < pes.pos + pes.header_length + pes.pes_packet_data_bytes_n}

VirtualBytes(segs) ==
    Flatten([i \in 1..Len(segs) |->
                Slice(hdata[segs[i].fh], segs[i].real_address,
                      segs[i].real_address + segs[i].data_size)])

\* what read(size) at position before gives a reader that is alone
AloneRead(segs, before, size) ==
    IF size < 0 THEN Slice(VirtualBytes(segs), before, Len(VirtualBytes(segs)))
    ELSE Slice(VirtualBytes(segs), before, before + size)

\* C20: when StreamReaders share one handle and their read and seek calls
\* are interleaved in any order, one call at a time, every read returns the
\* bytes the reader would return if it alone used the handle.
C20_SharedHandleReadsAsAlone ==
    sh_last.reader # 0 =>
        /\ sh_last.err = "none"
        /\ sh_last.data = AloneRead(sh_readers[sh_last.reader].segs,
                                    sh_last.before, sh_last.size)

\* a read of reader 1 that crosses a segment boundary, begun in the middle of
\* its stream while the cursor of the handle was left elsewhere by reader 2
C20_Witness ==
    /\ sh_last.reader = 1 /\ sh_last.before = 1 /\ Len(sh_last.data) = 2
    /\ Len(sh_readers[1].segs) >= 2
    /\ sh_readers[1].segs[1].data_size = 2
    /\ sh_readers[2].position = 1 /\ sh_readers[2].offset = 0
    /\ hpos["file"] # sh_readers[1].segs[1].real_address + 1

\* C16: the recognizer of DVD AC-3 accepts the first PES exactly when its
\* header_length is 0x11, its first payload byte is 0x80 and the bytes at
\* payload offset 4 and 5 are 0B 77; it accepts a later PES exactly when its
\* header_length is 0x11 and its first payload byte is 0x80; every PES it
\* does not accept fails with WrongPrivateStream.
Ac3Recognized(d, pes, is_first) ==
    LET start == pes.pos + pes.header_length
    IN  /\ pes.header_length = 17
        /\ Slice(d, start, start + 1) = <<128>>
        /\ is_first => Slice(d, start + 4, start + 6) = <<11, 119>>

C16_RecognizerAcceptsExactly ==
    pv_kind = "ac3" =>
        \A i \in 1..Len(pv_audio) :
            /\ pv_audio[i].err = "none"
                  <=> Ac3Recognized(hdata["file"], pv_audio[i].pes,
                                    pv_audio[i].is_first)
            /\ pv_audio[i].err \in {"none", "WrongPrivateStream"}

\* C15: a recognized DVD AC-3 stream reads as the bytes of its
\* private_stream_1 PES packets in file order, each from
\* pos + header_length + 4 for payload length - 4 bytes, without gaps, and
\* data_length of every DVDAC3Audio is the payload length - 4.
RECURSIVE Ac3Expected(_, _)
Ac3Expected(d, pes_packets) ==
    IF pes_packets = <<>> THEN <<>>
    ELSE LET pes == Head(pes_packets)
             from == pes.pos + pes.header_length + 4
         IN  Slice(d, from, from + pes.pes_packet_data_bytes_n - 4)
                \o Ac3Expected(d, Tail(pes_packets))

Ac3Packets == stream_iter(pack_list, pes_types,
                          StrArg(Name("private_stream_1"))).out

C15_Ac3StreamIsPayloads ==
    (pv_kind = "ac3" /\ pv_err = "none") =>
        /\ sr_err = "none"
        /\ \A i \in 1..Len(pv_audio) :
              /\ pv_audio[i].data_length
                    = pv_audio[i].pes.pes_packet_data_bytes_n - 4
              /\ pv_audio[i].data_length >= 0
        /\ IsPrefix(pv_out, Ac3Expected(hdata["file"], Ac3Packets))
        /\ pv_eof => pv_out = Ac3Expected(hdata["file"], Ac3Packets)

\* C17: a PS2 PCM stream that was built has the size 44 +
\* total_audio_data_size of its first PES; its segments are the WAV header
\* of 44 bytes (chunk_size 36 + total_audio_data_size, data chunk size
\* total_audio_data_size), then the audio payload of every PES in order, then
\* a segment of zeros as long as the shortfall exactly when the payloads sum
\* to less than total_audio_data_size; the construction fails when the
\* payloads sum to more, or when the shortfall is an interleave block or more.
PcmPayloadStart(i) ==
    pv_audio[i].pes.pos
        + (IF i = 1 THEN full_header_length ELSE sub_header_length)

PcmPayloadLength(i) ==
    pv_audio[i].pes.pes_packet_length + block_data_start
        - (IF i = 1 THEN full_header_length ELSE sub_header_length)

PcmPayloadSum(n) == SeqSum([i \in 1..n |-> PcmPayloadLength(i)])

PcmDeclaredTotal ==
    LittleEndian32(hdata["file"], pv_audio[1].pes.pos + 59)

PcmAllRecognized == \A i \in 1..Len(pv_audio) : pv_audio[i].err = "none"

C17_WavHeaderPayloadsPadding ==
    (pv_kind = "pcm" /\ pv_audio # <<>> /\ PcmAllRecognized) =>
        LET n == Len(pv_audio)
            total == PcmDeclaredTotal
            shortfall == PcmDeclaredTotal - PcmPayloadSum(Len(pv_audio))
        IN  /\ (shortfall < 0 \/ shortfall >= pcm_interleave_size)
                  => pv_err # "none"
            /\ pv_err = "none" =>
                  /\ sr_total = header_size + total
                  /\ sr_segs[1] = SegmentInfo("mem", 0, 0, header_size)
                  /\ Len(hdata["mem"]) = header_size
                  /\ LittleEndian32(hdata["mem"], 4) = 36 + total
                  /\ LittleEndian32(hdata["mem"], 40) = total
                  /\ \A i \in 1..n :
                        sr_segs[i + 1]
                           = SegmentInfo("file", PcmPayloadStart(i),
                                         header_size + PcmPayloadSum(i - 1),
                                         PcmPayloadLength(i))
                  /\ Len(sr_segs) = (IF shortfall > 0 THEN n + 2 ELSE n + 1)
                  /\ shortfall > 0 =>
                        /\ sr_segs[n + 2]
                              = SegmentInfo("pad", 0,
                                            header_size + PcmPayloadSum(n),
                                            shortfall)
                        /\ hdata["pad"] = Zeros(shortfall)

C17_Witness ==
    /\ pv_kind = "pcm" /\ pv_err = "none"
    /\ Len(pv_audio) = 1
    /\ PcmDeclaredTotal = 512
    /\ PcmPayloadSum(1) = 509
    /\ Len(sr_segs) = 3
    /\ sr_total = 556

\* C18: on a PS2 PCM stream with more than one channel and total size T,
\* read(n) at a position p in 0..T returns the bytes p .. min(p + n, T) - 1
\* (all bytes from p when n < 0) of the reference stream, the WAV header
\* followed by every block of num_channels * 0x200 bytes reinterleaved
\* sample by sample, and leaves tell() at the end of those bytes, whichever
\* block the cache holds.
PcmReferenceByte(raw, t) ==
    LET interleave_size == pv_pcm.num_channels * pcm_interleave_size
        base == (t \div interleave_size) * interleave_size
        sample == (t % interleave_size) \div 2
        channel == sample % pv_pcm.num_channels
        index == sample \div pv_pcm.num_channels
    IN  At(raw, header_size + base
                   + 2 * (channel * (pcm_interleave_size \div 2) + index)
                   + (t % 2))

PcmReference ==
    SubSeq(VirtualBytes(sr_segs), 1, header_size)
        \o [k \in 1..pv_pcm.total_audio_data_size |->
               PcmReferenceByte(VirtualBytes(sr_segs), k - 1)]

PcmReadEnd ==
    IF pv_last.size < 0 THEN Len(PcmReference)
    ELSE Min(pv_last.before + pv_last.size, Len(PcmReference))

C18_ReadsReinterleavedStream ==
    (pv_last.called /\ pv_pcm.num_channels > 1) =>
        /\ pv_last.err = "none"
        /\ pv_last.data = Slice(PcmReference, pv_last.before, PcmReadEnd)
        /\ pv_last.after = PcmReadEnd

(***************************************************************************)
(* Properties of StreamReader over handles that end early (SpecTruncated)  *)
(***************************************************************************)
\* the byte at virtual offset v lies past the end of the handle of its segment
MissingByte(v) ==
    \E k \in 1..Len(sr_segs) :
        /\ sr_segs[k].virtual_start <= v
        /\ v < sr_segs[k].virtual_start + sr_segs[k].data_size
        /\ sr_segs[k].real_address + (v - sr_segs[k].virtual_start)
              >= Len(hdata[sr_segs[k].fh])

\* the last call was read(size) right after seek(a), and a byte it asks for
\* is missing
ReadOfMissingBytes ==
    /\ sr_ops.op = "read"
    /\ sr_ops.prev.op = "seek"
    /\ \E v \in sr_ops.prev.arg..(sr_total - 1) :
          /\ sr_ops.arg < 0 \/ v < sr_ops.prev.arg + sr_ops.arg
          /\ MissingByte(v)

\* C21: a read that needs bytes its handle does not return (the segment
\* reaches past the end of the handle) ends with an error; it neither loops
\* for ever nor returns as if the segment were complete.
C21_ShortHandleReadFails ==
    ReadOfMissingBytes => sr_err \notin {"none", "hang"}

(***************************************************************************)
(* Properties of the PES headers (under SpecHeaders)                       *)
(***************************************************************************)
\* the outcome of the optional sub-headers of a packet with FlagData, the
\* bytes they consumed and the bytes between them and the end of the header
SubHeadersOf(pes) ==
    WithExtension(hdata["file"], pes.flag_data, pes.pos + 9)

ConsumedBy(pes) == SubHeadersOf(pes).p - (pes.pos + 9)

StuffingOf(pes) ==
    Slice(hdata["file"], pes.pos + 9 + ConsumedBy(pes),
          pes.pos + 9 + pes_header_data_length(pes.flag_data))

HeaderFilled(pes) ==
    /\ ConsumedBy(pes) <= pes_header_data_length(pes.flag_data)
    /\ Len(StuffingOf(pes))
          = pes_header_data_length(pes.flag_data) - ConsumedBy(pes)
    /\ AllFF(StuffingOf(pes))

\* C22: in a PES packet with FlagData the optional sub-headers consume at
\* most pes_header_data_length bytes and the bytes up to
\* pes_header_data_length are all 0xFF, or the packet fails to parse; every
\* such packet of an index has header_length 9 + pes_header_data_length.
C22_HeaderDataLengthFilled ==
    /\ (/\ cur_pes.pes.flag_data # NoFlagData
        /\ b_10(cur_pes.pes.flag_data) = 2
        /\ SubHeadersOf(cur_pes.pes).err = "none")
          => /\ cur_pes.err = "none" => HeaderFilled(cur_pes.pes)
             /\ ~HeaderFilled(cur_pes.pes) => cur_pes.err # "none"
    /\ pc = "done" =>
          \A pes \in IndexPes :
              pes.flag_data # NoFlagData
                 => pes.header_length
                       = 9 + pes_header_data_length(pes.flag_data)

C22_Witness ==
    /\ pc = "done"
    /\ cur_pes.err = "none"
    /\ cur_pes.pes \in IndexPes
    /\ pts_dts_flags(cur_pes.pes.flag_data) = 2
    /\ ConsumedBy(cur_pes.pes) = 5
    /\ StuffingOf(cur_pes.pes) = <<255, 255>>
    /\ cur_pes.pes.header_length = 16

\* the bits of byte i (from 0) of the block at offset o of the header of pes
\* that lie under mask
BlockBits(pes, o, i, mask) ==
    BitAnd(At(hdata["file"], pes.pos + 9 + o + i), mask)

PtsBlockLength(pes) ==
    IF pts_dts_flags(pes.flag_data) = 2 THEN 5
    ELSE IF pts_dts_flags(pes.flag_data) = 3 THEN 10 ELSE 0

EscrBlockLength(pes) == IF escr_flag(pes.flag_data) = 1 THEN 6 ELSE 0

\* a marker bit of the PTS, PTS and DTS, ESCR or ES rate block is 0
PtsMarkerCleared(pes) ==
    /\ pts_dts_flags(pes.flag_data) \in {2, 3}
    /\ \E i \in {0, 2, 4} \cup (IF pts_dts_flags(pes.flag_data) = 3
                               THEN {5, 7, 9} ELSE {}) :
          BlockBits(pes, 0, i, 1) = 0

EscrMarkerCleared(pes) ==
    /\ escr_flag(pes.flag_data) = 1
    /\ \/ \E i \in {0, 2, 4} : BlockBits(pes, PtsBlockLength(pes), i, 4) = 0
       \/ BlockBits(pes, PtsBlockLength(pes), 5, 1) = 0

EsRateMarkerCleared(pes) ==
    /\ es_rate_flag(pes.flag_data) = 1
    /\ \/ BlockBits(pes, PtsBlockLength(pes) + EscrBlockLength(pes), 0, 128) = 0
       \/ BlockBits(pes, PtsBlockLength(pes) + EscrBlockLength(pes), 2, 1) = 0

\* the fixed bits of the flag bytes and of the PTS block are as they must be,
\* and the blocks lie inside the file
BlocksReadable(pes) ==
    /\ pes.flag_data # NoFlagData
    /\ b_10(pes.flag_data) = 2
    /\ pes.pos + 9 + PtsBlockLength(pes) + EscrBlockLength(pes) + 3
          <= Len(hdata["file"])
    /\ pts_dts_flags(pes.flag_data) = 2
          => Shr(BlockBits(pes, 0, 0, 240), 4) = 2
    /\ pts_dts_flags(pes.flag_data) = 3
          => /\ Shr(BlockBits(pes, 0, 0, 240), 4) = 3
             /\ Shr(BlockBits(pes, 0, 5, 240), 4) = 1

\* C23: a PES packet whose PTS, PTS and DTS, ESCR or ES rate block has a
\* marker bit equal to 0 fails to parse with InvalidMarker, as one with a
\* cleared marker in the additional copy info block does.
C23_ClearedSubHeaderMarkerRejected ==
    (/\ BlocksReadable(cur_pes.pes)
     /\ \/ PtsMarkerCleared(cur_pes.pes)
        \/ EscrMarkerCleared(cur_pes.pes)
        \/ EsRateMarkerCleared(cur_pes.pes))
       => cur_pes.err = "InvalidMarkerException"

\* ---- system header descriptors ----
\* the offset of the system header of the pack at pos, when the 14 bytes at
\* pos are a well-formed pack header followed by the system header start code
\* with its three markers set; None otherwise
SystemHeaderAt(d, pos) ==
    IF pos = None \/ pos + PackSize > Len(d) THEN None
    ELSE LET data == Slice(d, pos, pos + PackSize)
             p == pos + PackSize + pack_stuffing_length(data)
         IN  IF /\ PackHeaderRead(d, data, pos + PackSize).err
                       \notin {"InvalidFixedBitsException",
                                "InvalidMarkerException"}
                /\ Slice(data, 0, 4) = pack_start_code
                /\ p + 12 <= Len(d)
                /\ Slice(d, p, p + 4) = system_header_start_code
                /\ BitAnd(At(d, p + 6), 128) # 0
                /\ BitAnd(At(d, p + 8), 1) # 0
                /\ BitAnd(At(d, p + 10), 32) # 0
             THEN p ELSE None

\* the fixed bits of the six-byte extended descriptor at p: '11', seven
\* zeros, '10110110' and '11'
ExtendedFixedBits(d, p) ==
    /\ At(d, p + 1) = 192
    /\ At(d, p + 2) < 128
    /\ At(d, p + 3) = 182
    /\ At(d, p + 4) >= 192

\* the descriptors that start at p: one for every byte with its top bit
\* set, six bytes long when the byte is 0xB7 and three bytes long otherwise
RECURSIVE DescriptorsFrom(_, _)
DescriptorsFrom(d, p) ==
    IF p >= Len(d) \/ At(d, p) < 128 THEN <<>>
    ELSE LET size == IF At(d, p) = stream_id_ex THEN 6 ELSE 3
         IN  <<[pos |-> p, size |-> size, stream_id |-> At(d, p)]>>
                \o DescriptorsFrom(d, p + size)

\* every descriptor lies inside the file with its fixed bits as they must
\* be, and four more bytes follow the last one
DescriptorsValid(d, p) ==
    LET ds == DescriptorsFrom(d, p)
    IN  /\ \A i \in 1..Len(ds) :
               /\ ds[i].pos + ds[i].size <= Len(d)
               /\ IF ds[i].size = 6 THEN ExtendedFixedBits(d, ds[i].pos)
                  ELSE At(d, ds[i].pos + 1) >= 192
        /\ p + SeqSum([i \in 1..Len(ds) |-> ds[i].size]) + 4 <= Len(d)

DescriptorsEnd(d, p) ==
    LET ds == DescriptorsFrom(d, p)
    IN  p + SeqSum([i \in 1..Len(ds) |-> ds[i].size])

\* C27: a system header is parsed as its 12 fixed bytes and then one stream
\* descriptor for every next byte with its top bit set, six bytes long when
\* that byte is 0xB7 (with valid fixed bits) and three bytes long otherwise,
\* and the reader is left right after the last descriptor.
C27_SystemHeaderDescriptors ==
    LET d == hdata["file"]
        p == SystemHeaderAt(d, psh.pos)
    IN  (p # None /\ DescriptorsValid(d, p + 12))
           => /\ psh.system_header.pos = p
              /\ psh.system_header.streams = DescriptorsFrom(d, p + 12)
              /\ (pc = "pes" /\ psh.pes_list = <<>>)
                     => hpos["file"] = DescriptorsEnd(d, p + 12)

\* ---- the end of the index and malformed input ----
\* the offset at which the pack ends: the end of its last PES packet, or of
\* its header when it has none
PackEndOffset(pack) ==
    IF pack.pes_list = <<>> THEN PackHeader(hdata["file"], pack.pos).p
    ELSE LET last == pack.pes_list[Len(pack.pes_list)]
         IN  last.pos + 6 + last.pes_packet_length

\* C28: the index is returned only when the four bytes after a pack are the
\* program end code 00 00 01 B9, and a pack that the outer loop starts at
\* bytes that are not a pack start code (the bytes at which the loop over the
\* PES packets of the pack before stopped) makes the construction fail with
\* an error.
C28_EndsOnlyAtEndCode ==
    /\ pc = "done"
          => /\ pack_list # <<>>
             /\ HRead(hdata["file"], PackEndOffset(pack_list[Len(pack_list)]), 4)
                   = program_end_code
             /\ err = "none"
    /\ (psh.pos # None /\ HRead(hdata["file"], psh.pos, 4) # pack_start_code)
          => /\ pc = "failed"
             /\ err # "none"

\* after a first pack the loop over its PES packets stopped at bytes that
\* begin with no start code prefix, and the pack started there has failed
C28_Witness ==
    /\ pc = "failed"
    /\ pack_list # <<>>
    /\ psh.pos # None
    /\ psh.pos + 4 <= Len(hdata["file"])
    /\ HRead(hdata["file"], psh.pos, 3) # start_code_prefix
    /\ b_01(HReadInto(hdata["file"], psh.pos, PackSize)) = 1
    /\ err = "AssertionError"

\* ---- the picture header ----
\* bit n of the file, counted from the most significant bit of byte 0
FileBit(d, n) == Shr(At(d, n \div 8), 7 - (n % 8)) % 2

\* picture_coding_type of the picture header at start, from the file
CodingTypeAt(d, start) == Shr(BitAnd(At(d, start + 5), 56), 3)

\* the bit at which the extra information trailer starts: after the 61 bits
\* up to vbv_delay, the 4 bits of the forward code of a P or B picture and
\* the 4 bits of the backward code of a B picture
TrailerStart(d, start) ==
    8 * start + 61
        + (IF CodingTypeAt(d, start) \in {2, 3} THEN 4 ELSE 0)
        + (IF CodingTypeAt(d, start) = 3 THEN 4 ELSE 0)

\* the entries of the trailer at bit n: one for every flag 1, nine bits apart
RECURSIVE ExtraEntries(_, _)
ExtraEntries(d, n) ==
    IF n >= 8 * Len(d) \/ FileBit(d, n) = 0 THEN 0
    ELSE 1 + ExtraEntries(d, n + 9)

\* C24: a picture header has the forward code iff its coding type is P or
\* B and the backward code iff it is B, and its extra information trailer
\* ends at the first flag 0: with k entries it takes 9k + 1 bits.
C24_PictureHeaderTrailer ==
    LET d == hdata["file"]
        start == vd_picture.start
        k == ExtraEntries(d, TrailerStart(d, start))
    IN  (/\ start # None
         /\ start + 8 <= Len(d)
         /\ Slice(d, start, start + 4) = picture_start_code
         /\ TrailerStart(d, start) + 9 * k < 8 * Len(d))
           => /\ vd_picture.forward = (CodingTypeAt(d, start) \in {2, 3})
              /\ vd_picture.backward = (CodingTypeAt(d, start) = 3)
              /\ vd_picture.extra = k
              /\ vd_picture.trailer_bits = 9 * k + 1

\* ---- the picture data scan ----
ScanCodes == {sequence_header_code, group_start_code, picture_start_code,
              sequence_end_code}

\* the offsets at or after from at which one of the four codes starts
ScanCodeOffsets(d, from) ==
    {q \in from..(Len(d) - 4) :
        /\ d[q + 1] = 0 /\ d[q + 2] = 0 /\ d[q + 3] = 1
        /\ <<0, 0, 1, d[q + 4]>> \in ScanCodes}

\* C25: the picture data scan leaves the reader at the lowest offset, at or
\* after the start of the scan, at which one of the start codes 00 00 01 B3,
\* 00 00 01 B8, 00 00 01 00 or 00 00 01 B7 begins.
C25_ScanStopsAtFirstStartCode ==
    (vd_scan.from # None /\ vd_scan.to # None)
       => /\ vd_scan.to \in ScanCodeOffsets(hdata["file"], vd_scan.from)
          /\ \A q \in ScanCodeOffsets(hdata["file"], vd_scan.from) :
                vd_scan.to <= q

\* ---- the dispatch of ExtensionData ----
\* the extension an identifier stands for after the sequence extension
\* (i = 0) and after the picture coding extension (i = 2)
IdentifiedExtension(i, id) ==
    IF i = 0 /\ id = 2 THEN "sequence_display_extension"
    ELSE IF i = 0 /\ id = 5 THEN "sequence_scalable_extension"
    ELSE IF i = 2 /\ id = 3 THEN "quant_matrix_extension"
    ELSE IF i = 2 /\ id = 4 THEN "copyright_extension"
    ELSE IF i = 2 /\ id = 7 THEN "picture_display_extension"
    ELSE IF i = 2 /\ id = 9 THEN "picture_spatial_scalable_extension"
    ELSE IF i = 2 /\ id = 10 THEN "picture_temporal_scalable_extension"
    ELSE "none"

\* the high nibble of the byte after the extension_start_code at start
IdentifierAt(d, start) == Shr(At(d, start + 4), 4)

\* C26: an ExtensionData is parsed as the extension that the identifier in
\* the high nibble of the byte after its extension_start_code stands for:
\* 0010 and 0101 with i = 0, 0011, 0100, 0111, 1001 and 1010 with i = 2.
C26_DispatchOnIdentifier ==
    (/\ vd_ext.start # None
     /\ vd_ext.attribute # "none"
     /\ IdentifiedExtension(vd_ext.i, IdentifierAt(hdata["file"], vd_ext.start))
           # "none")
       => vd_ext.attribute
             = IdentifiedExtension(vd_ext.i,
                                   IdentifierAt(hdata["file"], vd_ext.start))

\* ---- the cursor of the handle ----
\* C29: DVDAC3Audio, PS2PCMAudio and MPEG2Video leave the cursor of the
\* handle where it was when they were called, when they return and when
\* they raise.
C29_CursorPutBack ==
    vd_pc \in {"returned", "raised"} => hpos["file"] = vd_entry

\* MPEG2Video with info_only, called at a cursor other than 0, has parsed a
\* picture, scanned its data and returned
C29_Witness ==
    /\ vd_pc = "returned"
    /\ vd_info_only
    /\ vd_entry > 0
    /\ vd_picture.start # None
    /\ vd_scan.to # None /\ vd_scan.to > vd_entry
    /\ hpos["file"] = vd_entry

\* ---- termination ----
\* C30: the construction of an MPEG2Video ends, by a return or by an
\* exception: no loop of the walker is left repeating one turn for ever.
C30_ConstructionTerminates == vd_pc # "hung"

====
